---- MODULE Spec2Model ----
(***************************************************************************)
(* A model of parser-binding: dataclass fields are analysed into binding   *)
(* descriptors (utils.py), descriptors synthesize option spellings         *)
(* (types.py), BindingParser declares the options to argparse and          *)
(* rebuilds dataclass instances from the parsed namespace (parser.py).     *)
(*                                                                         *)
(* Text is modelled as a sequence of one-character strings, so that        *)
(* replace / split / startswith / int() are computed, not assumed.         *)
(***************************************************************************)
EXTENDS Integers, Sequences, FiniteSets, TLC

VARIABLES
    hashseed,      \* the interpreter's string-hash seed (fixed per process)
    optq,          \* SpecOpt: a descriptor and the evaluations of .options
    coq,           \* SpecCoerce: a field, a raw string, the coercion result
    _dataclasses,  \* BindingParser._dataclasses
    _field_info,   \* BindingParser._field_info: name -> BindingType
    _actions,      \* the options declared to argparse, in declaration order
    status,        \* "new" | "ready" | "construct_error" | "error"
    call,          \* the arguments of the last parse_into_dataclasses call
    result,        \* what the last parse_into_dataclasses call produced
    _classes,      \* ComamndLineParser._classes (class attribute)
    _parser_meta,  \* ComamndLineParser._parser_meta (class attribute)
    synthesized    \* how many _MergedDataClass types the process has made

vars == <<hashseed, optq, coq, _dataclasses, _field_info, _actions, status,
          call, result, _classes, _parser_meta, synthesized>>

\* ------------------------------------------------------------------ bounds
MaxNameLen == 2    \* characters in a base name (SpecOpt)
MaxAliases == 1    \* aliases of a descriptor (SpecOpt)
MaxRawLen == 5     \* characters in a raw command-line string (SpecCoerce)
MaxClasses == 2    \* record types bound to one parser (Spec)
MaxArgv == 2       \* tokens in one command line (Spec)

\* ------------------------------------------------------------------ text
\* Characters in ascending code-point order.
Chars ==
    <<",", "-", "0", "1", "2", "3", "4", "5", "6", "7", "8", "9", "_",
      "a", "b", "c", "d", "e", "f", "g", "h", "i", "j", "k", "l", "m",
      "n", "o", "p", "q", "r", "s", "t", "u", "v", "w", "x", "y", "z">>

CharRank(c) == CHOOSE i \in 1..Len(Chars) : Chars[i] = c

Range(seq) == {seq[i] : i \in 1..Len(seq)}

\* str.__lt__: lexicographic order on text.
RECURSIVE StrLess(_, _)
StrLess(s, t) ==
    IF t = <<>> THEN FALSE
    ELSE IF s = <<>> THEN TRUE
    ELSE IF Head(s) # Head(t) THEN CharRank(Head(s)) < CharRank(Head(t))
    ELSE StrLess(Tail(s), Tail(t))

\* str.replace(old, new) for one-character old and new.
Replace(s, old, new) == [i \in 1..Len(s) |-> IF s[i] = old THEN new ELSE s[i]]

\* str.startswith(prefix)
StartsWith(s, prefix) ==
    /\ Len(s) >= Len(prefix)
    /\ SubSeq(s, 1, Len(prefix)) = prefix

\* All texts over an alphabet with lo..hi characters.
RECURSIVE TextsOfLen(_, _)
TextsOfLen(alphabet, n) ==
    IF n = 0 THEN {<<>>}
    ELSE {<<c>> \o t : c \in alphabet, t \in TextsOfLen(alphabet, n - 1)}

Texts(alphabet, lo, hi) == UNION {TextsOfLen(alphabet, n) : n \in lo..hi}

\* ---------------------------------------------------------------- values
\* Python values, tagged by their runtime type.
None == [t |-> "none", v |-> 0]
IntV(n) == [t |-> "int", v |-> n]
StrV(s) == [t |-> "str", v |-> s]
BoolV(b) == [t |-> "bool", v |-> b]
EnumV(cls, member) == [t |-> "enum", v |-> <<cls, member>>]
ListV(items) == [t |-> "list", v |-> items]
TupleV(items) == [t |-> "tuple", v |-> items]
SetV(items) == [t |-> "set", v |-> Range(items)]
QueueV(items) == [t |-> "queue", v |-> items]
DequeV(items) == [t |-> "deque", v |-> items]

\* The outcome of a call: a value, or a raised exception.
Ok(v) == [ok |-> TRUE, val |-> v]
Raise(kind, about) == [ok |-> FALSE, exc |-> kind, about |-> about]

\* -------------------------------------------------------- types.py: options
\* The interpreter lays a set of strings out by their seeded hashes: the
\* iteration order of one set differs from process to process.  Two seeds
\* stand for two of the layouts a run can produce.
HashSeeds == {0, 1}

RECURSIVE Ascending(_)
Ascending(S) ==
    IF S = {} THEN <<>>
    ELSE LET m == CHOOSE x \in S : \A y \in S : x = y \/ StrLess(x, y)
         IN <<m>> \o Ascending(S \ {m})

Reverse(seq) == [i \in 1..Len(seq) |-> seq[Len(seq) + 1 - i]]

\* Iterating a set of strings under a hash seed.
SetOrder(S, seed) == IF seed = 0 THEN Ascending(S) ELSE Reverse(Ascending(S))

is_shortcut_ignoring_length(name) == ~("_" \in Range(name))

is_shortcut(name) ==
    IF "_" \in Range(name) \/ Len(name) > 1 THEN FALSE ELSE TRUE

\* A key of 3 stands for the fall-through that returns no key.
compare_option(option) ==
    IF Len(Tail(option)) <= 1 THEN -1
    ELSE IF StartsWith(option, <<"-", "-">>)
         THEN IF ~("_" \in Range(option)) THEN 0
              ELSE IF "-" \in Range(option) THEN 1
              ELSE 3
         ELSE 2

\* sorted(seq, key=compare_option): a stable sort on a key in -1..3.
SortedByKey(seq) ==
    LET Pick(k) == SelectSeq(seq, LAMBDA o : compare_option(o) = k)
    IN Pick(-1) \o Pick(0) \o Pick(1) \o Pick(2) \o Pick(3)

\* The loop body without its branch for boolean fields.
SpellingsOf_plain(name, wrapper_type, default) ==
    IF is_shortcut(name)
    THEN {<<"-">> \o name}
    ELSE {<<"-", "-">> \o Replace(name, "-", "_"),
          <<"-", "-">> \o Replace(name, "_", "-")}

\* The spellings one base name contributes (the body of the loop).
SpellingsOf(name, wrapper_type, default) ==
    IF wrapper_type = "Bool"
    THEN IF default = BoolV(TRUE)
         THEN {<<"-", "-", "w", "i", "t", "h", "o", "u", "t", "-">>
                   \o Replace(name, "_", "-"),
               <<"-", "-", "w", "i", "t", "h", "o", "u", "t", "_">>
                   \o Replace(name, "-", "_")}
         ELSE {<<"-", "-", "w", "i", "t", "h", "-">> \o Replace(name, "_", "-"),
               <<"-", "-", "w", "i", "t", "h", "_">> \o Replace(name, "-", "_")}
    ELSE IF is_shortcut(name)
         THEN {<<"-">> \o name}
         ELSE {<<"-", "-">> \o Replace(name, "-", "_"),
               <<"-", "-">> \o Replace(name, "_", "-")}

\* The aliases of a descriptor, as names (aliases may be None).
AliasNames(d) ==
    IF d.aliases.t = "none" THEN {}
    ELSE {d.aliases.v[i].v : i \in 1..Len(d.aliases.v)}

\* BindingType.options under the running process's hash seed.
options(d, seed) ==
    LET names == {d.name} \cup AliasNames(d)
        final_options ==
            UNION {SpellingsOf(n, d.wrapper_type, d.default) : n \in names}
    IN SortedByKey(SetOrder(final_options, seed))

\* ------------------------------------------------- the state before any call
NoProbe == [kind |-> "none"]
NoCall == [kind |-> "none"]
NoResult == [kind |-> "none"]

ParserNew ==
    /\ _dataclasses = <<>>
    /\ _field_info = <<>>
    /\ _actions = <<>>
    /\ status = "new"
    /\ call = NoCall
    /\ result = NoResult

ParserUnchanged ==
    UNCHANGED <<_dataclasses, _field_info, _actions, status, call, result>>

\* The class attributes of ComamndLineParser as the module is imported, and
\* a process that has synthesized no type yet.
ProcessNew ==
    /\ _classes = <<>>
    /\ _parser_meta = {}
    /\ synthesized = 0

RegistryUnchanged == UNCHANGED <<_classes, _parser_meta>>

ProcessUnchanged == UNCHANGED <<_classes, _parser_meta, synthesized>>

\* ------------------------------------------------ SpecOpt: BindingType.options
\* Field names are identifiers; aliases may also carry hyphens.
NameAlphabet == {"a", "_"}
AliasAlphabet == {"a", "_", "-"}

OptDescs ==
    [name : Texts(NameAlphabet, 1, MaxNameLen),
     aliases : {None} \cup
               {[t |-> "list", v |-> [i \in 1..Len(a) |-> [t |-> "str", v |-> a[i]]]] :
                    a \in UNION {[1..n -> Texts(AliasAlphabet, 1, MaxNameLen)] :
                                     n \in 1..MaxAliases}},
     wrapper_type : {"Basic", "Bool"},
     default : {None, BoolV(TRUE), BoolV(FALSE)}]

InitOpt ==
    /\ hashseed \in HashSeeds
    /\ \E d \in OptDescs :
           /\ d.wrapper_type = "Basic" => d.default = None
           /\ optq = [kind |-> "options", d |-> d, evaluated |-> FALSE,
                      opts |-> <<>>, seen |-> FALSE, first |-> <<>>]
    /\ coq = NoProbe
    /\ ParserNew
    /\ ProcessNew

\* descriptor.options is read in the running process.
OptEvaluate ==
    /\ optq.kind = "options"
    /\ \E o \in {options(optq.d, hashseed)} :
           optq' = [optq EXCEPT !.evaluated = TRUE, !.opts = o, !.seen = TRUE,
                                !.first = IF optq.seen THEN @ ELSE o]
    /\ UNCHANGED <<hashseed, coq>>
    /\ ParserUnchanged
    /\ ProcessUnchanged

\* The program is started again: a new process draws a new hash seed.  What
\* an earlier run returned (first) is what its user saw, and stays.
OptNewProcess ==
    /\ optq.kind = "options"
    /\ optq.evaluated
    /\ hashseed' \in HashSeeds
    /\ optq' = [optq EXCEPT !.evaluated = FALSE, !.opts = <<>>]
    /\ UNCHANGED coq
    /\ ParserUnchanged
    /\ ProcessUnchanged

NextOpt == OptEvaluate \/ OptNewProcess

SpecOpt == InitOpt /\ [][NextOpt]_vars

\* The base names of the probed descriptor.
OptBases == {optq.d.name} \cup AliasNames(optq.d)

IsShortBase(n) == Len(n) = 1 /\ n # <<"_">>

\* What claim C7 expects one base name to yield.
C7Expected(n) ==
    IF IsShortBase(n)
    THEN {<<"-">> \o n}
    ELSE {<<"-", "-">> \o Replace(n, "-", "_"),
          <<"-", "-">> \o Replace(n, "_", "-")}

\* C7: for a non-boolean field, a one-character base name other than "_"
\* yields exactly the one-dash spelling, every other base name yields exactly
\* its underscore-normalized and hyphen-normalized double-dash spellings; the
\* option list holds these spellings and no other.
C7_OptionSpellings ==
    (optq.kind = "options" /\ optq.evaluated /\ optq.d.wrapper_type # "Bool")
    => /\ \A n \in OptBases : C7Expected(n) \subseteq Range(optq.opts)
       /\ \A o \in Range(optq.opts) : \E n \in OptBases : o \in C7Expected(n)

\* A non-boolean descriptor with a short base and a long base, evaluated.
C7_Witness ==
    /\ optq.kind = "options" /\ optq.evaluated
    /\ optq.d.wrapper_type = "Basic"
    /\ \E n, m \in OptBases : IsShortBase(n) /\ Len(m) > 1 /\ "_" \in Range(m)
    /\ Len(optq.opts) = 3

IsDupFree(seq) == \A i, j \in 1..Len(seq) : seq[i] = seq[j] => i = j

IsOneDash(o) == Len(o) = 2
IsDoubleDash(o) == Len(o) > 2 /\ StartsWith(o, <<"-", "-">>)

\* C8: the option list is duplicate-free, is the same sequence whenever it is
\* evaluated for the same descriptor, lists one-dash options before
\* double-dash options, and double-dash spellings without an underscore
\* before those with one.
C8_OptionsDeterministic ==
    (optq.kind = "options" /\ optq.evaluated)
    => /\ IsDupFree(optq.opts)
       /\ optq.opts = optq.first
       /\ \A i, j \in 1..Len(optq.opts) :
              LET a == optq.opts[i]
                  b == optq.opts[j]
              IN /\ (IsOneDash(a) /\ IsDoubleDash(b)) => i < j
                 /\ (IsDoubleDash(a) /\ IsDoubleDash(b)
                     /\ ~("_" \in Range(a)) /\ "_" \in Range(b)) => i < j

\* ------------------------------------------------------- type annotations
\* A declared field type: its kind, whether it carries generic arguments,
\* and the arguments (for an Enum its members, for a Literal its values).
Plain(k) == [k |-> k, hasargs |-> FALSE, args |-> <<>>]
Generic(k, args) == [k |-> k, hasargs |-> TRUE, args |-> args]
NoneType == Plain("NoneType")
Optional(T) == Generic("Union", <<T, NoneType>>)
EnumType(cls, members) == [k |-> "Enum", hasargs |-> FALSE, args |-> members,
                           cls |-> cls]
Member(name, value) == [name |-> name, value |-> value]

MISSING == [t |-> "MISSING", v |-> 0]

\* ------------------------------------------------------------- callables
\* The conversion functions a descriptor can carry.
Fn(f) == [t |-> "fn", f |-> f]
FnNone == None
FnChoice(str2choice) == [t |-> "fn", f |-> "str2choice.get", map |-> str2choice]
FnSep(sep, dtype, wrapper_cls) ==
    [t |-> "fn", f |-> "collection_type_with_sep_fn", sep |-> sep,
     dtype |-> dtype, wrapper_type |-> wrapper_cls]

\* callable(x)
Callable(x) == x.t = "fn"

\* bool(x): the truth value of a Python value.
Truthy(x) ==
    CASE x.t = "none" -> FALSE
      [] x.t = "bool" -> x.v
      [] x.t = "int" -> x.v # 0
      [] x.t = "str" -> x.v # <<>>
      [] x.t \in {"list", "tuple", "deque"} -> x.v # <<>>
      [] x.t = "set" -> x.v # {}
      [] OTHER -> TRUE

\* ------------------------------------------------- builtin conversions
Digits == <<"0", "1", "2", "3", "4", "5", "6", "7", "8", "9">>
IsDigit(c) == c \in Range(Digits)
DigitVal(c) == (CHOOSE i \in 1..10 : Digits[i] = c) - 1

\* The text of a non-negative integer.
RECURSIVE NatText(_)
NatText(n) ==
    IF n < 10 THEN <<Digits[n + 1]>>
    ELSE NatText(n \div 10) \o <<Digits[(n % 10) + 1]>>

\* The number a text of digits (with inner underscores) denotes.
RECURSIVE DigitsVal(_, _)
DigitsVal(s, acc) ==
    IF s = <<>> THEN acc
    ELSE IF Head(s) = "_" THEN DigitsVal(Tail(s), acc)
    ELSE DigitsVal(Tail(s), acc * 10 + DigitVal(Head(s)))

\* An integer literal body: digits, single underscores only between digits.
IsIntBody(s) ==
    /\ s # <<>>
    /\ \A i \in 1..Len(s) :
           \/ IsDigit(s[i])
           \/ /\ s[i] = "_"
              /\ i > 1 /\ i < Len(s)
              /\ IsDigit(s[i - 1]) /\ IsDigit(s[i + 1])

\* int(text)
IntOfText(s) ==
    LET neg == s # <<>> /\ Head(s) = "-"
        body == IF neg THEN Tail(s) ELSE s
    IN IF IsIntBody(body)
       THEN Ok(IntV(IF neg THEN 0 - DigitsVal(body, 0) ELSE DigitsVal(body, 0)))
       ELSE Raise("ValueError", StrV(s))

\* str.split(sep), sep not empty.
\* A split that never cuts.
Split_whole(s, sep, piece) == <<s>>

RECURSIVE Split(_, _, _)
Split(s, sep, piece) ==
    IF s = <<>> THEN <<piece>>
    ELSE IF StartsWith(s, sep)
         THEN <<piece>> \o Split(SubSeq(s, Len(sep) + 1, Len(s)), sep, <<>>)
         ELSE Split(Tail(s), sep, Append(piece, Head(s)))

\* ", ".join(texts)
RECURSIVE JoinComma(_)
JoinComma(texts) ==
    IF texts = <<>> THEN <<>>
    ELSE IF Len(texts) = 1 THEN texts[1]
    ELSE texts[1] \o <<",", " ">> \o JoinComma(Tail(texts))

\* repr(x) and str(x) differ on text only: repr quotes it.
RECURSIVE PyText(_, _)
PyText(x, quoted) ==
    CASE x.t = "str" -> IF quoted THEN <<"'">> \o x.v \o <<"'">> ELSE x.v
      [] x.t = "int" -> IF x.v < 0 THEN <<"-">> \o NatText(0 - x.v)
                        ELSE NatText(x.v)
      [] x.t = "none" -> <<"N", "o", "n", "e">>
      [] x.t = "bool" -> IF x.v THEN <<"T", "r", "u", "e">>
                         ELSE <<"F", "a", "l", "s", "e">>
      [] x.t = "list" ->
            <<"[">> \o JoinComma([i \in 1..Len(x.v) |-> PyText(x.v[i], TRUE)])
                    \o <<"]">>
      [] x.t = "tuple" ->
            <<"(">> \o JoinComma([i \in 1..Len(x.v) |-> PyText(x.v[i], TRUE)])
                    \o (IF Len(x.v) = 1 THEN <<",", ")">> ELSE <<")">>)

PyStr(x) == PyText(x, FALSE)

\* dict.get(key) on a dict kept as its items in insertion order.
DictGet(items, key) ==
    IF \E i \in 1..Len(items) : items[i][1] = key
    THEN items[CHOOSE i \in 1..Len(items) : items[i][1] = key][2]
    ELSE None

\* d[key] = val
DictSet(items, key, val) ==
    IF \E i \in 1..Len(items) : items[i][1] = key
    THEN [i \in 1..Len(items) |->
              IF items[i][1] = key THEN <<key, val>> ELSE items[i]]
    ELSE Append(items, <<key, val>>)

\* The first failure of a sequence of outcomes, or all their values.
AllOk(rs) ==
    IF \E i \in 1..Len(rs) : ~rs[i].ok
    THEN rs[CHOOSE i \in 1..Len(rs) :
                ~rs[i].ok /\ \A j \in 1..(i - 1) : rs[j].ok]
    ELSE Ok([i \in 1..Len(rs) |-> rs[i].val])

\* ----------------------------------------------------- utils.py: wrappers
\* Some enumeration of a set (the interpreter fixes one; none is promised).
RECURSIVE SetToSeq(_)
SetToSeq(S) ==
    IF S = {} THEN <<>>
    ELSE LET e == CHOOSE x \in S : TRUE IN <<e>> \o SetToSeq(S \ {e})

\* iter(x): the items of an iterable, in order; a Queue is not iterable.
IterItems(x) ==
    CASE x.t \in {"list", "tuple", "deque"} -> Ok(x.v)
      [] x.t = "set" -> Ok(SetToSeq(x.v))
      [] x.t = "str" -> Ok([i \in 1..Len(x.v) |-> StrV(<<x.v[i]>>)])
      [] OTHER -> Raise("TypeError", x)

\* list / tuple / set / queue_wrapper / dequeue_wrapper / lambda x: x
WrapperApply(wrapper_cls, x) ==
    IF wrapper_cls = "identity" THEN Ok(x)
    ELSE LET it == IterItems(x)
         IN IF ~it.ok THEN it
            ELSE CASE wrapper_cls = "list" -> Ok(ListV(it.val))
                   [] wrapper_cls = "tuple" -> Ok(TupleV(it.val))
                   [] wrapper_cls = "set" -> Ok(SetV(it.val))
                   [] wrapper_cls = "queue_wrapper" -> Ok(QueueV(it.val))
                   [] wrapper_cls = "dequeue_wrapper" -> Ok(DequeV(it.val))

\* ------------------------------------------------- utils.py: dict_type_fn
DictV(items) == [t |-> "dict", v |-> items]

Quote == "\""

IsQuoted(s) ==
    /\ Len(s) >= 2 /\ s[1] = Quote /\ s[Len(s)] = Quote
    /\ \A i \in 2..(Len(s) - 1) : s[i] # Quote

Unquoted(s) == SubSeq(s, 2, Len(s) - 1)

\* A JSON scalar: a quoted text (without escapes) or an integer.
JsonScalar(s) ==
    IF IsQuoted(s) THEN Ok(StrV(Unquoted(s)))
    ELSE IF s # <<>> /\ IntOfText(s).ok /\ \A i \in 1..Len(s) : s[i] # "_"
    THEN IntOfText(s)
    ELSE Raise("JSONDecodeError", StrV(s))

\* "key":value
JsonMember(s) ==
    LET parts == Split(s, <<":">>, <<>>)
    IN IF Len(parts) # 2 \/ ~IsQuoted(parts[1]) \/ ~JsonScalar(parts[2]).ok
       THEN Raise("JSONDecodeError", StrV(s))
       ELSE Ok(<<StrV(Unquoted(parts[1])), JsonScalar(parts[2]).val>>)

\* The members of an object, later keys replacing earlier ones.
RECURSIVE JsonMembers(_, _)
JsonMembers(members, acc) ==
    IF members = <<>> \/ ~acc.ok THEN acc
    ELSE JsonMembers(Tail(members),
             IF JsonMember(Head(members)).ok
             THEN Ok(DictSet(acc.val, JsonMember(Head(members)).val[1],
                             JsonMember(Head(members)).val[2]))
             ELSE JsonMember(Head(members)))

\* json.loads(text) for documents written without blanks: an object of
\* scalars, or a scalar.
JsonObject(members) ==
    IF ~members.ok THEN members ELSE Ok(DictV(members.val))

json_loads(s) ==
    IF Len(s) >= 2 /\ s[1] = "{" /\ s[Len(s)] = "}"
    THEN IF Len(s) = 2 THEN Ok(DictV(<<>>))
         ELSE JsonObject(JsonMembers(Split(SubSeq(s, 2, Len(s) - 1),
                                           <<",">>, <<>>),
                                     Ok(<<>>)))
    ELSE JsonScalar(s)

\* The files of the working directory: path -> text.
Files == << <<<<"c">>, <<"{", Quote, "1", Quote, ":", "2", "}">>>> >>
IsFile(path) == \E i \in 1..Len(Files) : Files[i][1] = path

RECURSIVE Apply(_, _)

\* {k_type(k): v_type(v) for k, v in dict_data.items()}; acc is Ok(items)
\* or the exception a conversion raised.
ConvertedEntry(acc, key, val) ==
    IF ~key.ok THEN key
    ELSE IF ~val.ok THEN val
    ELSE Ok(DictSet(acc, key.val, val.val))

RECURSIVE ConvertItems(_, _, _, _)
ConvertItems(items, k_fn, v_fn, acc) ==
    IF items = <<>> \/ ~acc.ok THEN acc
    ELSE ConvertItems(Tail(items), k_fn, v_fn,
                      ConvertedEntry(acc.val, Apply(k_fn, Head(items)[1]),
                                     Apply(v_fn, Head(items)[2])))

\* dict_data.items() of what json.loads returned, then the comprehension.
ConvertLoaded(loaded, k_fn, v_fn) ==
    IF ~loaded.ok THEN loaded
    ELSE IF loaded.val.t # "dict" THEN Raise("AttributeError", loaded.val)
    ELSE JsonObject(ConvertItems(loaded.val.v, k_fn, v_fn, Ok(<<>>)))

\* The except branch: the text is read as the path of a JSON file.
FromFile(first, val, k_fn, v_fn) ==
    IF first.ok THEN first
    ELSE IF IsFile(val)
    THEN ConvertLoaded(json_loads(DictGet(Files, val)), k_fn, v_fn)
    ELSE Raise("TypeError", StrV(val))

\* if v_type is Any: v_type = identity_type (and k_type likewise)
DictArgFn(T) ==
    IF T.k \in {"Any", "identity_type"} THEN Fn("identity") ELSE Fn(T.k)

dict_type_fn(val, k_type, v_type) ==
    FromFile(ConvertLoaded(json_loads(val), DictArgFn(k_type),
                           DictArgFn(v_type)),
             val, DictArgFn(k_type), DictArgFn(v_type))

\* Calling a conversion function on a value.
Apply(fn, x) ==
    CASE ~Callable(fn) -> Raise("TypeError", fn)
      [] fn.f = "int" ->
            (CASE x.t = "str" -> IntOfText(x.v)
               [] x.t = "int" -> Ok(x)
               [] x.t = "bool" -> Ok(IntV(IF x.v THEN 1 ELSE 0))
               [] OTHER -> Raise("TypeError", x))
      [] fn.f = "str" ->
            Ok(StrV(PyStr(x)))
      [] fn.f = "bool" -> Ok(BoolV(Truthy(x)))
      [] fn.f = "identity" -> Ok(x)
      [] fn.f = "float" ->
            \* texts are taken from digits, sign and underscore only
            (CASE x.t = "str" ->
                      IF IntOfText(x.v).ok
                      THEN Ok([t |-> "float", v |-> IntOfText(x.v).val.v])
                      ELSE Raise("ValueError", x)
               [] x.t = "int" -> Ok([t |-> "float", v |-> x.v])
               [] OTHER -> Raise("TypeError", x))
      [] fn.f = "dict_type_fn" ->
            IF x.t # "str" THEN Raise("TypeError", x)
            ELSE dict_type_fn(x.v, fn.k_type, fn.v_type)
      [] fn.f = "bytes" ->
            (CASE x.t = "int" -> Ok([t |-> "bytes", v |-> [i \in 1..x.v |-> "0"]])
               [] OTHER -> Raise("TypeError", x))
      [] fn.f = "bytes_utf8" ->
            IF x.t = "str" THEN Ok([t |-> "bytes", v |-> x.v])
            ELSE Raise("TypeError", x)
      [] fn.f = "str2choice.get" -> Ok(DictGet(fn.map, x))
      [] fn.f = "collection_type_with_sep_fn" ->
            IF x.t # "str" THEN Raise("AttributeError", x)
            ELSE LET items == Split(x.v, fn.sep.v, <<>>)
                     mapped == AllOk([i \in 1..Len(items) |->
                                         Apply(fn.dtype, StrV(items[i]))])
                 IN IF ~mapped.ok THEN mapped
                    ELSE WrapperApply(fn.wrapper_type, ListV(mapped.val))

\* ------------------------------------------------ utils.py: _get_choices
\* hasattr(dtype, 'UnionType'): the name belongs to the module `types`; no
\* annotation has an attribute of that name.
HasUnionTypeAttr(dtype) == FALSE

\* origin_type is Union or (hasattr(dtype, 'UnionType') and
\* isinstance(origin_type, types.UnionType)).  typing.Union[...] has kind
\* "Union"; `X | Y` between classes is a types.UnionType, kind "UnionType".
IsUnion(dtype) ==
    \/ dtype.k = "Union"
    \/ HasUnionTypeAttr(dtype) /\ dtype.k = "UnionType"

NotNoneArgs(dtype) ==
    SelectSeq(dtype.args, LAMBDA a : a.k # "NoneType")

RECURSIVE _get_choices(_)
_get_choices(dtype) ==
    IF IsUnion(dtype) THEN _get_choices(NotNoneArgs(dtype)[1])
    ELSE LET choices ==
                 IF dtype.k = "Literal" THEN dtype.args
                 ELSE [i \in 1..Len(dtype.args) |-> dtype.args[i].value]
         IN [i \in 1..Len(choices) |-> StrV(PyStr(choices[i]))]

\* ---------------------------------------------- utils.py: _analysis_type
Classified(fn, wrapper) == Ok([fn |-> fn, w |-> wrapper])

ScalarKinds == {"int", "str", "float", "bytes", "identity_type"}

\* The conversion a scalar type (or identity_type) stands for when called.
TypeFn(T) == IF T.k = "identity_type" THEN Fn("identity") ELSE Fn(T.k)

\* dtype.__args__ without `type(None)` and `type(...)`, or [identity_type].
\* type(...) is the class "ellipsis"; the `...` of Tuple[int, ...] is its
\* instance, kind "Ellipsis", and stays.
CollectionGenerics(dtype) ==
    IF dtype.hasargs
    THEN SelectSeq(dtype.args, LAMBDA a : a.k \notin {"NoneType", "ellipsis"})
    ELSE <<Plain("identity_type")>>

\* The five collection branches share one shape.
ClassifyCollection(dtype, wrapper) ==
    LET dtype_generics == CollectionGenerics(dtype)
    IN IF dtype_generics = <<>> THEN Raise("IndexError", None)
       ELSE IF Len(dtype_generics) > 1
               \/ dtype_generics[1].k \notin ScalarKinds
            THEN Classified(FnNone, "Complex")
            ELSE Classified(TypeFn(dtype_generics[1]), wrapper)

\* The member a choice stands for: an Enum member, or a Literal value.
ChoiceValues(dtype) ==
    IF dtype.k = "Literal" THEN dtype.args
    ELSE [i \in 1..Len(dtype.args) |-> EnumV(dtype.cls, dtype.args[i].name)]

\* str2choice, then the identity entries for values that are no key yet.
RECURSIVE Str2Choice(_, _, _)
Str2Choice(choices, choice_values, acc) ==
    IF choices = <<>> THEN acc
    ELSE Str2Choice(Tail(choices), Tail(choice_values),
                    DictSet(acc, Head(choices), Head(choice_values)))

RECURSIVE WithIdentityMap(_, _, _)
WithIdentityMap(str2choice, choice_values, acc) ==
    IF choice_values = <<>> THEN acc
    ELSE LET val == Head(choice_values)
             known == \E i \in 1..Len(str2choice) : str2choice[i][1] = val
         IN WithIdentityMap(str2choice, Tail(choice_values),
                            IF known THEN acc ELSE DictSet(acc, val, val))

RECURSIVE _analysis_type(_)
_analysis_type(dtype) ==
    CASE dtype.k = "MISSING" -> Classified(FnNone, "Unknown")
      [] dtype.k \in {"str", "int", "bytes", "float"} ->
            Classified(Fn(dtype.k), "Basic")
      [] dtype.k = "bool" -> Classified(Fn("bool"), "Bool")
      [] IsUnion(dtype) ->
            IF Len(NotNoneArgs(dtype)) > 1
            THEN Raise("ValueError", None)
            ELSE _analysis_type(NotNoneArgs(dtype)[1])
      [] dtype.k \in {"Literal", "Enum"} ->
            \* choice_values = dtype.__args__: typing.Literal itself has none
            IF dtype.k = "Literal" /\ ~dtype.hasargs
            THEN Raise("AttributeError", None)
            ELSE
            LET choice_values == ChoiceValues(dtype)
                choices == _get_choices(dtype)
                str2choice == Str2Choice(choices, choice_values, <<>>)
            IN Classified(
                   FnChoice(WithIdentityMap(str2choice, choice_values,
                                            str2choice)),
                   IF dtype.k = "Literal" /\ ~dtype.hasargs
                   THEN "Literal" ELSE "Enum")
      [] dtype.k = "Dict" ->
            LET dtype_generics ==
                    IF dtype.hasargs THEN NotNoneArgs(dtype)
                    ELSE <<Plain("identity_type"), Plain("identity_type")>>
            IN IF Len(dtype_generics) # 2
               THEN Raise("AssertionError", None)
               ELSE IF \E i \in 1..2 : dtype_generics[i].k \notin ScalarKinds
                    THEN Classified(FnNone, "Complex")
                    ELSE Classified(
                             [t |-> "fn", f |-> "dict_type_fn",
                              k_type |-> dtype_generics[1],
                              v_type |-> dtype_generics[2]], "Dict")
      [] dtype.k = "List" -> ClassifyCollection(dtype, "List")
      [] dtype.k = "Tuple" -> ClassifyCollection(dtype, "Tuple")
      [] dtype.k = "Set" -> ClassifyCollection(dtype, "Set")
      [] dtype.k = "Deque" -> ClassifyCollection(dtype, "Dequeue")
      [] dtype.k = "Queue" -> ClassifyCollection(dtype, "Queue")
      [] dtype.k \in {"TextIO", "BinaryIO", "IO"} ->
            LET dtype_generics ==
                    IF dtype.hasargs THEN CollectionGenerics(dtype)
                    ELSE IF dtype.k = "TextIO" THEN <<Plain("str")>>
                    ELSE <<Plain("identity_type")>>
            IN IF dtype_generics = <<>> THEN Raise("IndexError", None)
               ELSE Classified(TypeFn(dtype_generics[1]), "File")
      [] OTHER -> Classified(FnNone, "Unknown")

\* --------------------------------------------------- dataclasses.Field
\* A mapping with text keys (metadata, keyword arguments) is a set of
\* <<key, value>> pairs.
Has(m, k) == \E p \in m : p[1] = k
Get(m, k, dflt) == IF Has(m, k) THEN (CHOOSE p \in m : p[1] = k)[2] ELSE dflt
Without(m, k) == {p \in m : p[1] # k}
With(m, k, v) == Without(m, k) \cup {<<k, v>>}

\* dataclasses.field(default=..., default_factory=..., metadata=...): a
\* default factory is kept as the value it returns.
field(default, default_factory, metadata) ==
    [default |-> default, default_factory |-> default_factory,
     metadata |-> metadata, init |-> TRUE]

\* A field of a class body: its name and annotation, and what it is set to.
Declare(name, type, f) ==
    [name |-> name, type |-> type, default |-> f.default,
     default_factory |-> f.default_factory, metadata |-> f.metadata,
     init |-> f.init]

\* name: type = value
Defaulted(name, type, value) == Declare(name, type, field(value, MISSING, {}))

\* name: type
Bare(name, type) == Declare(name, type, field(MISSING, MISSING, {}))

\* ------------------------------------------------- types.py: BindingField
\* kw holds the keyword arguments the caller passes.
BindingField(kw) ==
    LET default == Get(kw, "default", MISSING)
        default_factory == Get(kw, "default_factory", MISSING)
        type == Get(kw, "type", None)
        required == Get(kw, "required", BoolV(FALSE))
        sep == Get(kw, "sep", None)
        choices == Get(kw, "choices", None)
        aliases == Get(kw, "aliases", None)
        help == Get(kw, "help", None)
        file == Get(kw, "file", BoolV(FALSE))
        file_mode == Get(kw, "file_mode", None)
        file_encoding == Get(kw, "file_encoding", None)
        m1 == IF type # None THEN {<<"type", type>>} ELSE {}
        m2 == With(With(With(m1, "required", required), "choices", choices),
                   "sep", sep)
        m3 == IF help # None THEN With(m2, "help", help) ELSE m2
        m4 == IF file # None
              THEN Without(Without(With(With(m3, "file", file), "type", file),
                                   "sep"), "choices")
              ELSE m3
        m5 == IF file_mode # None THEN With(m4, "file_mode", file_mode) ELSE m4
        m6 == IF file_encoding # None
              THEN With(m5, "file_encoding", file_encoding) ELSE m5
        meta_info == IF aliases # None THEN With(m6, "aliases", aliases) ELSE m6
    IN IF Truthy(required) \/ (default = MISSING /\ default_factory = MISSING)
       THEN field(MISSING, MISSING, meta_info)
       ELSE IF default # MISSING
            THEN field(default, MISSING, meta_info)
            ELSE field(MISSING, default_factory, meta_info)

\* ------------------------------------------------ utils.py: analysis_filed
CollectionKinds == {"List", "Tuple", "Set", "Queue", "Dequeue"}

WrapperCls(wrapper_type) ==
    CASE wrapper_type = "List" -> "list"
      [] wrapper_type = "Tuple" -> "tuple"
      [] wrapper_type = "Set" -> "set"
      [] wrapper_type = "Queue" -> "queue_wrapper"
      [] wrapper_type = "Dequeue" -> "dequeue_wrapper"
      [] OTHER -> "identity"

\* Ok(descriptor), Ok(None) for a field that is no init argument, or the
\* exception raised while the descriptor is built.
\* A field that is never taken to lack a default.
NoDefault_never(fld) == FALSE

\* field.default is MISSING and field.default_factory is MISSING
NoDefault(fld) == fld.default = MISSING /\ fld.default_factory = MISSING

\* The body of analysis_filed once _analysis_type has answered with a.
FieldDescriptor(fld, a) ==
    IF ~a.ok THEN a
    ELSE
    LET meta == fld.metadata
        wrapper_type == a.val.w
        dtype1 == IF Truthy(Get(meta, "type", None))
                  THEN Get(meta, "type", None) ELSE a.val.fn
        required1 == NoDefault(fld)
        default1 == IF fld.default # MISSING THEN fld.default ELSE None
        \* default = dtype(default)
        coerced == IF ~required1 /\ Callable(dtype1) /\ default1 # None
                   THEN Apply(dtype1, default1) ELSE Ok(default1)
        choices1 == IF wrapper_type \in {"Literal", "Enum"}
                    THEN TupleV(_get_choices(fld.type)) ELSE None
        multiple1 == wrapper_type \in CollectionKinds
        sep == IF multiple1 THEN Get(meta, "sep", None) ELSE None
        dtype2 == IF Truthy(sep)
                  THEN FnSep(sep, dtype1, WrapperCls(wrapper_type))
                  ELSE dtype1
        dtype3 == IF wrapper_type = "Bool" THEN FnNone ELSE dtype2
        required == IF Get(meta, "required", None) # None
                    THEN Get(meta, "required", None) ELSE BoolV(required1)
        choices == IF Get(meta, "choices", None) # None
                   THEN Get(meta, "choices", None) ELSE choices1
        multiple == IF Get(meta, "multiple", None) # None
                    THEN Get(meta, "multiple", None) ELSE BoolV(multiple1)
        dtype == IF dtype3 = Fn("bytes") THEN Fn("bytes_utf8") ELSE dtype3
    IN
    IF ~coerced.ok THEN coerced
    ELSE IF wrapper_type = "Unknown" /\ Get(meta, "type", None) = None
    THEN Raise("Exception", StrV(fld.name))
    ELSE Ok([name |-> fld.name,
             type |-> dtype,
             default |-> IF required1 THEN None
                         ELSE IF fld.default_factory # MISSING
                              THEN fld.default_factory
                              ELSE coerced.val,
             choices |-> choices,
             multiple |-> multiple,
             seperator |-> sep,
             wrapper_type |-> wrapper_type,
             required |-> required,
             aliases |-> Get(meta, "aliases", None),
             help |-> Get(meta, "help", StrV(<<>>)),
             file |-> Get(meta, "file", BoolV(FALSE)),
             file_mode |-> Get(meta, "file_mode", StrV(<<"r">>)),
             file_encoding |-> Get(meta, "file_encoding",
                                   StrV(<<"u", "t", "f", "-", "8">>))])

analysis_filed(fld) ==
    IF ~fld.init THEN Ok(None)
    ELSE FieldDescriptor(fld, _analysis_type(fld.type))

\* --------------------------------------------- utils.py: analysis_dataclass
\* types[field.name] = analysis_filed(field), unless it answered None; an
\* exception replaces the dict.
AddDescriptor(types, name, res) ==
    IF ~res.ok THEN res
    ELSE Ok(IF res.val # None THEN DictSet(types, name, res.val) ELSE types)

\* The fields of one class, folded into the name -> descriptor dict; acc is
\* Ok(dict) or the exception raised so far.
RECURSIVE AnalyseFields(_, _)
AnalyseFields(flds, acc) ==
    IF flds = <<>> \/ ~acc.ok THEN acc
    ELSE AnalyseFields(Tail(flds),
                       AddDescriptor(acc.val, Head(flds).name,
                                     analysis_filed(Head(flds))))

RECURSIVE AnalyseClasses(_, _)
AnalyseClasses(clz, acc) ==
    IF clz = <<>> \/ ~acc.ok THEN acc
    ELSE AnalyseClasses(Tail(clz),
                        IF Head(clz).is_dataclass
                        THEN AnalyseFields(Head(clz).fields, acc)
                        ELSE acc)

\* Ok(dict) or the exception a field raised.
analysis_dataclass(clz) == AnalyseClasses(clz, Ok(<<>>))

\* ------------------------------------------- parser.py: parse_dataclasses
\* The options argparse itself declares on a new parser (add_help=True).
HelpOptions == {<<"-", "h">>, <<"-", "-", "h", "e", "l", "p">>}

\* BindingType.default_file
default_file(d) ==
    IF d.default = StrV(<<"-">>) /\ d.file_mode = StrV(<<"r">>)
    THEN [t |-> "stream", v |-> "stdin"]
    ELSE IF d.default = StrV(<<"-">>) /\ d.file_mode = StrV(<<"w">>)
    THEN [t |-> "stream", v |-> "stdout"]
    ELSE d.default

\* The keyword arguments of one add_argument call, as parse_dataclasses
\* builds them; a popped keyword is absent.
ArgumentKwargs(_type) ==
    LET is_switch == _type.wrapper_type = "Bool"
        is_file == _type.wrapper_type = "File" \/ Truthy(_type.file)
        action == IF _type.wrapper_type # "Bool" THEN None
                  ELSE IF _type.default = BoolV(TRUE) THEN StrV(<<"store_false">>)
                  ELSE StrV(<<"store_true">>)
        k0 == {<<"action", action>>,
               <<"nargs", IF Truthy(_type.multiple) /\ _type.seperator = None
                          THEN StrV(<<"*">>) ELSE None>>,
               <<"default", _type.default>>,
               <<"type", _type.type>>,
               <<"choices", _type.choices>>,
               <<"required", _type.required>>}
        k1 == IF is_switch
              THEN Without(Without(Without(k0, "nargs"), "type"), "choices")
              ELSE k0
        k2 == IF is_file
              THEN Without(Without(Without(
                       With(With(k1, "type",
                                 [t |-> "fn", f |-> "FileTypeWithGzip",
                                  mode |-> _type.file_mode,
                                  encoding |-> _type.file_encoding,
                                  content_type |-> _type.type]),
                            "default", default_file(_type)),
                       "nargs"), "choices"), "action")
              ELSE k1
        k3 == IF Truthy(_type.required) THEN Without(k2, "default") ELSE k2
    IN IF is_switch /\ is_file THEN Raise("KeyError", StrV(<<"nargs">>))
       ELSE Ok(k3)

\* argparse's add_argument(*options, **kwargs, dest=name): the declared
\* option, or the error of a spelling that is already declared.
add_argument(declared, option_strings, kwargs, dest) ==
    LET taken == HelpOptions \cup
                 UNION {Range(declared[i].option_strings) :
                            i \in 1..Len(declared)}
        action == Get(kwargs, "action", None)
        kind == IF action = None THEN "store" ELSE
                IF action = StrV(<<"store_true">>) THEN "store_true"
                ELSE "store_false"
        type == Get(kwargs, "type", None)
    IN IF \E o \in Range(option_strings) : o \in taken
       THEN Raise("ArgumentError", StrV(dest))
       ELSE IF kind = "store" /\ type # None /\ ~Callable(type)
       THEN Raise("ValueError", type)
       ELSE Ok(Append(declared,
               [dest |-> dest,
                option_strings |-> option_strings,
                action |-> kind,
                nargs |-> IF kind # "store" THEN "0"
                          ELSE IF Get(kwargs, "nargs", None) = None THEN "1"
                          ELSE "*",
                default |-> IF Has(kwargs, "default")
                            THEN Get(kwargs, "default", None)
                            ELSE IF kind = "store_true" THEN BoolV(FALSE)
                            ELSE IF kind = "store_false" THEN BoolV(TRUE)
                            ELSE None,
                type |-> type,
                choices |-> Get(kwargs, "choices", None),
                required |-> Truthy(Get(kwargs, "required", BoolV(FALSE)))]))

\* One turn of the loop over res.items(): the keyword arguments are built,
\* then the option is declared.
DeclareOne(declared, name, _type, kwargs, seed) ==
    IF ~kwargs.ok THEN kwargs
    ELSE add_argument(declared, options(_type, seed), kwargs.val, name)

\* The loop over res.items(); acc is Ok(options declared so far) or the
\* exception that ended the loop.
RECURSIVE DeclareAll(_, _, _)
DeclareAll(res, acc, seed) ==
    IF res = <<>> \/ ~acc.ok THEN acc
    ELSE DeclareAll(Tail(res),
                    DeclareOne(acc.val, res[1][1], res[1][2],
                               ArgumentKwargs(res[1][2]), seed),
                    seed)

\* ------------------------------------------------ parser.py: _check_value
\* x in list: membership by equality.
InSeq(x, seq) == \E i \in 1..Len(seq) : seq[i] = x

\* value not in typed_choices: Ok(None), or the ArgumentError carrying the
\* value it reports.
CheckAgainst(action, value, typed_choices) ==
    IF ~typed_choices.ok THEN typed_choices
    ELSE IF ~InSeq(value, typed_choices.val)
         THEN Raise("ArgumentError",
                    [reason |-> "invalid choice", dest |-> action.dest,
                     value |-> value])
         ELSE Ok(None)

_check_value(action, value) ==
    IF action.choices # None /\ action.type # None /\ Callable(action.type)
    THEN CheckAgainst(action, value,
                      AllOk([i \in 1..Len(action.choices.v) |->
                                 Apply(action.type, action.choices.v[i])]))
    ELSE IF action.choices # None
         THEN CheckAgainst(action, value, Ok(action.choices.v))
         ELSE Ok(None)

\* ------------------------------------ argparse, as parse_args drives it
\* The except clause of _get_value: a TypeError or ValueError of the type
\* function becomes an error naming the raw string.
InvalidValue(action, arg_string, r) ==
    IF r.ok \/ r.exc \notin {"TypeError", "ValueError"} THEN r
    ELSE Raise("ArgumentError",
               [reason |-> "invalid value", dest |-> action.dest,
                value |-> arg_string])

\* _get_value: the type function applied to one raw string.
_get_value(action, arg_string) ==
    IF action.type = None THEN Ok(arg_string)
    ELSE InvalidValue(action, arg_string, Apply(action.type, arg_string))

\* first; second: the exception of first, else the outcome of second.
Then(first, second) == IF ~first.ok THEN first ELSE second

\* The converted value v, checked against the choices.
CheckedValue(action, v) ==
    IF ~v.ok THEN v ELSE Then(_check_value(action, v.val), v)

\* One raw string converted and then checked against the choices.
ConvertOne(action, arg_string) ==
    CheckedValue(action, _get_value(action, arg_string))

\* The list an option with nargs='*' stores.
AsList(vs) == IF vs.ok THEN Ok(ListV(vs.val)) ELSE vs

\* _get_values: the value an option stores for the raw strings it consumed.
_get_values(action, arg_strings) ==
    IF action.nargs = "1" THEN ConvertOne(action, StrV(arg_strings[1]))
    ELSE AsList(AllOk([i \in 1..Len(arg_strings) |->
                          ConvertOne(action, StrV(arg_strings[i]))]))

IsOptionToken(tok) == tok # <<>> /\ Head(tok) = "-"

\* The declared option a token spells, or 0.
ActionOf(declared, tok) ==
    IF \E i \in 1..Len(declared) : tok \in Range(declared[i].option_strings)
    THEN CHOOSE i \in 1..Len(declared) : tok \in Range(declared[i].option_strings)
    ELSE 0

\* The number of plain arguments that follow position i.
\* An option that takes at most one of the strings that follow it.
ArgsAfter_one(argv, i) ==
    IF i + 1 > Len(argv) \/ IsOptionToken(argv[i + 1]) THEN 0 ELSE 1

RECURSIVE ArgsAfter(_, _)
ArgsAfter(argv, i) ==
    IF i + 1 > Len(argv) \/ IsOptionToken(argv[i + 1]) THEN 0
    ELSE 1 + ArgsAfter(argv, i + 1)

\* setattr(namespace, dest, v): the value v of option a (0 for a default)
\* is stored under dest, or its exception ends the parse.
Store(st, a, dest, v) ==
    IF ~v.ok THEN v
    ELSE Ok([st EXCEPT !.ns = DictSet(@, dest, v.val),
                       !.seen = IF a = 0 THEN @ ELSE @ \cup {a}])

\* consume_optional / consume_positionals over argv from position i.
\* acc is Ok([ns, seen, extras]), the namespace, the options seen and the
\* leftovers, or the exception that ended the parse.
RECURSIVE ConsumeArgv(_, _, _, _)
ConsumeArgv(declared, argv, i, acc) ==
    IF i > Len(argv) \/ ~acc.ok THEN acc
    ELSE LET tok == argv[i]
             a == ActionOf(declared, tok)
         IN IF a = 0
            THEN ConsumeArgv(declared, argv, i + 1,
                             Ok([acc.val EXCEPT !.extras = Append(@, tok)]))
            ELSE LET action == declared[a]
                     avail == ArgsAfter(argv, i)
                     n == IF action.nargs = "0" THEN 0
                          ELSE IF action.nargs = "1" THEN 1 ELSE avail
                 IN IF avail < n
                    THEN Raise("ArgumentError",
                               [reason |-> "expected one argument",
                                dest |-> action.dest, value |-> None])
                    ELSE ConsumeArgv(declared, argv, i + n + 1,
                             Store(acc.val, a, action.dest,
                                   CASE action.action = "store_true" ->
                                            Ok(BoolV(TRUE))
                                     [] action.action = "store_false" ->
                                            Ok(BoolV(FALSE))
                                     [] OTHER ->
                                            _get_values(action,
                                                SubSeq(argv, i + 1, i + n))))

\* The namespace before any argument is read: every default.
DefaultNamespace(declared) ==
    [i \in 1..Len(declared) |-> <<declared[i].dest, declared[i].default>>]

\* After the arguments: an unseen option's text default is converted, a
\* required unseen option is reported.
RECURSIVE ConvertDefaults(_, _, _, _)
ConvertDefaults(declared, i, acc, missing) ==
    IF ~acc.ok THEN acc
    ELSE IF i > Len(declared)
    THEN IF missing # <<>>
         THEN Raise("ArgumentError",
                    [reason |-> "required", dest |-> missing, value |-> None])
         ELSE acc
    ELSE LET action == declared[i]
         IN IF i \in acc.val.seen
            THEN ConvertDefaults(declared, i + 1, acc, missing)
            ELSE IF action.required
            THEN ConvertDefaults(declared, i + 1, acc,
                                 Append(missing, action.dest))
            ELSE IF action.default.t = "str"
                    /\ DictGet(acc.val.ns, action.dest) = action.default
            THEN ConvertDefaults(declared, i + 1,
                     Store(acc.val, 0, action.dest,
                           _get_value(action, action.default)),
                     missing)
            ELSE ConvertDefaults(declared, i + 1, acc, missing)

\* parser.error: an ArgumentError or a leftover argument ends the process;
\* otherwise the namespace is returned.
ExitOrNamespace(done) ==
    IF ~done.ok
    THEN IF done.exc = "ArgumentError" THEN Raise("SystemExit", done.about)
         ELSE done
    ELSE IF done.val.extras # <<>>
         THEN Raise("SystemExit",
                    [reason |-> "unrecognized", dest |-> done.val.extras,
                     value |-> None])
         ELSE Ok(done.val.ns)

\* ArgumentParser.parse_args(argv): Ok(namespace), or the error the parser
\* exits with.
parse_args(declared, argv) ==
    ExitOrNamespace(
        ConvertDefaults(declared, 1,
            ConsumeArgv(declared, argv, 1,
                        Ok([ns |-> DefaultNamespace(declared), seen |-> {},
                            extras |-> <<>>])),
            <<>>))

\* -------------------------------- parser.py: _init_dataclass_with_args
\* dataclass(type(name, types, {})): the fields of the merged class, or the
\* TypeError of a field without default after one with a default.  Bases
\* are walked from the last to the first; a redefined field keeps its place.
RECURSIVE CollectFields(_, _)
CollectFields(flds, acc) ==
    IF flds = <<>> THEN acc
    ELSE CollectFields(Tail(flds), DictSet(acc, Head(flds).name, Head(flds)))

RECURSIVE CollectBases(_, _)
CollectBases(bases, acc) ==
    IF bases = <<>> THEN acc
    ELSE CollectBases(SubSeq(bases, 1, Len(bases) - 1),
                      IF bases[Len(bases)].is_dataclass
                      THEN CollectFields(bases[Len(bases)].fields, acc)
                      ELSE acc)

HasDefault(f) == f.default # MISSING \/ f.default_factory # MISSING

MergedDataClass(types) ==
    LET items == CollectBases(types, <<>>)
        flds == [i \in 1..Len(items) |-> items[i][2]]
    IN IF \E i, j \in 1..Len(flds) :
              /\ i < j /\ flds[i].init /\ flds[j].init
              /\ HasDefault(flds[i]) /\ ~HasDefault(flds[j])
       THEN Raise("TypeError", StrV(<<>>))
       ELSE Ok(flds)

\* kwargs.pop(name) and init_kwargs[name] = val, or the exception the
\* wrapper raised.  st = [kwargs, init_kwargs].
Pop(st, name, val) ==
    IF ~val.ok THEN val
    ELSE Ok([kwargs |-> SelectSeq(st.kwargs, LAMBDA p : p[1] # name),
             init_kwargs |-> DictSet(st.init_kwargs, name, val.val)])

\* The loop over fields(cls): values are popped from kwargs, collections
\* are wrapped.  acc is Ok([kwargs, init_kwargs]) or the exception raised.
RECURSIVE PopFields(_, _, _)
PopFields(all_fields, field_info, acc) ==
    IF all_fields = <<>> \/ ~acc.ok THEN acc
    ELSE LET name == Head(all_fields).name
             st == acc.val
         IN IF ~InSeq(name, [i \in 1..Len(st.kwargs) |-> st.kwargs[i][1]])
            THEN PopFields(Tail(all_fields), field_info, acc)
            ELSE IF ~InSeq(name, [i \in 1..Len(field_info) |-> field_info[i][1]])
            THEN Raise("KeyError", StrV(name))
            ELSE LET arg_val == DictGet(st.kwargs, name)
                     fld == DictGet(field_info, name)
                 IN PopFields(Tail(all_fields), field_info,
                        Pop(st, fld.name,
                            IF arg_val # None
                               /\ fld.wrapper_type \in CollectionKinds
                            THEN WrapperApply(WrapperCls(fld.wrapper_type),
                                              arg_val)
                            ELSE Ok(arg_val)))

\* cls(**init_kwargs): the generated __init__.
Instantiate(all_fields, init_kwargs) ==
    LET given(f) == InSeq(f.name, [i \in 1..Len(init_kwargs) |->
                                      init_kwargs[i][1]])
    IN IF \E i \in 1..Len(all_fields) :
              \/ all_fields[i].init /\ ~given(all_fields[i])
                 /\ ~HasDefault(all_fields[i])
              \/ ~all_fields[i].init /\ given(all_fields[i])
       THEN Raise("TypeError", StrV(<<>>))
       ELSE Ok([i \in 1..Len(all_fields) |->
                   LET f == all_fields[i]
                   IN <<f.name,
                        IF given(f) THEN DictGet(init_kwargs, f.name)
                        ELSE IF f.default # MISSING THEN f.default
                        ELSE f.default_factory>>])

\* return cls(**init_kwargs), kwargs
Built(all_fields, popped) ==
    IF ~popped.ok THEN popped
    ELSE LET item == Instantiate(all_fields, popped.val.init_kwargs)
         IN IF ~item.ok THEN item
            ELSE Ok([item |-> item.val, kwargs |-> popped.val.kwargs])

\* Ok([item, kwargs]): the instance and what is left of kwargs.
_init_dataclass_with_args(all_fields, kwargs, field_info) ==
    Built(all_fields,
          PopFields(all_fields, field_info,
                    Ok([kwargs |-> kwargs, init_kwargs |-> <<>>])))

\* results.append(item), and arg_dict is what the call left.
Collect(results, r) ==
    IF ~r.ok THEN r
    ELSE Ok([kwargs |-> r.val.kwargs, results |-> Append(results, r.val.item)])

\* The loop of split mode over the target classes, sharing arg_dict; acc
\* is Ok([kwargs, results]) or the exception raised.
RECURSIVE SplitInto(_, _, _)
SplitInto(target_dataclasses, field_info, acc) ==
    IF target_dataclasses = <<>> \/ ~acc.ok THEN acc
    ELSE SplitInto(Tail(target_dataclasses), field_info,
             Collect(acc.val.results,
                     _init_dataclass_with_args(Head(target_dataclasses).fields,
                                               acc.val.kwargs, field_info)))

\* The merged instance of the type synthesized from types.
MergeInto(merged, kwargs, field_info) ==
    IF ~merged.ok THEN merged
    ELSE _init_dataclass_with_args(merged.val, kwargs, field_info)

\* What the call hands back: the instance, the tuple, or the exception.
Outcome(kind, r) ==
    IF ~r.ok THEN [kind |-> "raised", exc |-> r.exc, about |-> r.about]
    ELSE IF kind = "instance" THEN [kind |-> "instance", item |-> r.val.item]
    ELSE [kind |-> "tuple", items |-> r.val.results]

\* parse_into_dataclasses once parse_args has answered with parsed.
Reconstruct(field_info, types, split_classes, parsed) ==
    IF ~parsed.ok THEN Outcome("raised", parsed)
    ELSE IF ~split_classes
    THEN Outcome("instance",
                 MergeInto(MergedDataClass(types), parsed.val, field_info))
    ELSE Outcome("tuple",
                 SplitInto(types, field_info,
                           Ok([kwargs |-> parsed.val, results |-> <<>>])))

\* A process that makes the merged type once and then reuses it.
Synthesized_cached(n, split_classes, parsed) ==
    IF ~split_classes /\ parsed.ok /\ n = 0 THEN 1 ELSE n

\* type(f'_MergedDataClass@...', types, {}): merge mode makes a new type
\* once parse_args has returned; n counts the types made so far.
Synthesized(n, split_classes, parsed) ==
    IF ~split_classes /\ parsed.ok THEN n + 1 ELSE n

\* What parse_into_dataclasses returns or raises.
parse_into_dataclasses(declared, field_info, types, args, split_classes) ==
    Reconstruct(field_info, types, split_classes, parse_args(declared, args))

\* ------------------------------------------------------ the record types
\* Text constants.
t_adam == <<"a", "d", "a", "m">>
t_sgd == <<"s", "g", "d">>
t_hello == <<"h", "e", "l", "l", "o">>
t_x == <<"x">>
t_1 == <<"1">>
t_2 == <<"2">>
t_1_2 == <<"1", ",", "2">>
t_comma == <<",">>

\* class OptimizerType(Enum): Adam = 'adam'; SGD = 'sgd'
OptimizerType ==
    EnumType("OptimizerType",
             <<Member("Adam", StrV(t_adam)), Member("SGD", StrV(t_sgd))>>)

StrList(texts) == ListV([i \in 1..Len(texts) |-> StrV(texts[i])])

DataClass(name, flds) == [name |-> name, is_dataclass |-> TRUE, fields |-> flds]

\* vals: Optional[List[int]] = None
\* seq: List[int] = field(default=None, metadata={'sep': ','})
DataArguments ==
    DataClass("DataArguments",
        <<Defaulted(<<"v", "a", "l", "s">>, Optional(Generic("List", <<Plain("int")>>)),
                    None),
          Declare(<<"s", "e", "q">>, Generic("List", <<Plain("int")>>),
                  field(None, MISSING, {<<"sep", StrV(t_comma)>>}))>>)

\* do_train: bool = True
\* dev: bool = field(default=False, metadata={'aliases': ['d']})
Switches ==
    DataClass("Switches",
        <<Defaulted(<<"d", "o", "_", "t", "r", "a", "i", "n">>, Plain("bool"),
                    BoolV(TRUE)),
          Declare(<<"d", "e", "v">>, Plain("bool"),
                  field(BoolV(FALSE), MISSING,
                        {<<"aliases", StrList(<<<<"d">>>>)>>}))>>)

\* optimizer: OptimizerType = OptimizerType.Adam
\* batch_size: int = 32
TraningArguments ==
    DataClass("TraningArguments",
        <<Defaulted(<<"o", "p", "t", "i", "m", "i", "z", "e", "r">>, OptimizerType,
                    EnumV("OptimizerType", "Adam")),
          Defaulted(<<"b", "a", "t", "c", "h", "_", "s", "i", "z", "e">>, Plain("int"), IntV(32))>>)

\* output_dir: str = BindingField(default='a', aliases=['o'])
\* train_mode: Literal[1, 2] = 1
IOArguments ==
    DataClass("IOArguments",
        <<Declare(<<"o", "u", "t", "p", "u", "t", "_", "d", "i", "r">>, Plain("str"),
                  BindingField({<<"default", StrV(<<"a">>)>>,
                                <<"aliases", StrList(<<<<"o">>>>)>>})),
          Defaulted(<<"t", "r", "a", "i", "n", "_", "m", "o", "d", "e">>,
                    Generic("Literal", <<IntV(1), IntV(2)>>), IntV(1))>>)

\* step: int
\* output_dir: str = BindingField(default='b', aliases=['p'])
OutArguments ==
    DataClass("OutArguments",
        <<Bare(<<"s", "t", "e", "p">>, Plain("int")),
          Declare(<<"o", "u", "t", "p", "u", "t", "_", "d", "i", "r">>, Plain("str"),
                  BindingField({<<"default", StrV(<<"b">>)>>,
                                <<"aliases", StrList(<<<<"p">>>>)>>}))>>)

\* must: int
\* name: Optional[str] = 'hello'
TestClass ==
    DataClass("TestClass",
        <<Bare(<<"m", "u", "s", "t">>, Plain("int")),
          Defaulted(<<"n", "a", "m", "e">>, Optional(Plain("str")),
                    StrV(t_hello))>>)

\* ---------------------------------------------- BindingParser, as state
Names(clz) == [i \in 1..Len(clz) |-> clz[i].name]

AllClasses ==
    {DataArguments, Switches, TraningArguments, IOArguments, OutArguments,
     TestClass}

ClassNamed(n) == CHOOSE c \in AllClasses : c.name = n

\* Tuples of lo..hi distinct classes.
ClassTuples(classes, lo, hi) ==
    UNION {{clz \in [1..n -> classes] :
                \A i, j \in 1..n : clz[i] = clz[j] => i = j} : n \in lo..hi}

\* BindingParser(*clz): __init__ and the parse_dataclasses() it ends with.
Construct(clz) ==
    /\ status = "new"
    /\ _dataclasses' = Names(clz)
    /\ \E res \in {analysis_dataclass(clz)} :
       \E declared \in {IF res.ok THEN DeclareAll(res.val, Ok(<<>>), hashseed)
                        ELSE res} :
           IF declared.ok
           THEN /\ _field_info' = res.val
                /\ _actions' = declared.val
                /\ status' = "ready"
                /\ result' = NoResult
           ELSE /\ _field_info' = IF res.ok THEN res.val ELSE <<>>
                /\ _actions' = <<>>
                /\ status' = "construct_error"
                /\ result' = [kind |-> "raised", exc |-> declared.exc,
                              about |-> declared.about]
    /\ call' = NoCall
    /\ UNCHANGED <<hashseed, optq, coq>>
    /\ ProcessUnchanged

\* parser.parse_into_dataclasses(types, args, split_classes). The call leaves
\* the parser as it was, so a parser is followed through one call, as in the
\* module-level parse_args(), which builds a parser and calls it once.
ParseIntoDataclasses(types, args, split_classes) ==
    /\ status = "ready"
    /\ call = NoCall
    /\ call' = [kind |-> "parse", types |-> Names(types), args |-> args,
                split_classes |-> split_classes]
    /\ \E parsed \in {parse_args(_actions, args)} :
           /\ result' = Reconstruct(_field_info, types, split_classes, parsed)
           /\ synthesized' = Synthesized(synthesized, split_classes, parsed)
    /\ UNCHANGED <<hashseed, optq, coq, _dataclasses, _field_info, _actions,
                   status>>
    /\ RegistryUnchanged

\* The tokens a command line is made of: the declared spellings, an
\* undeclared one, and raw values.
RawValues == {t_1, t_2, t_x, t_1_2}
UnknownOption == <<"-", "-", "z", "z">>

Tokens(raws) ==
    UNION {Range(_actions[i].option_strings) : i \in 1..Len(_actions)}
        \cup {UnknownOption} \cup raws

Argvs(raws, maxlen) == UNION {[1..n -> Tokens(raws)] : n \in 0..maxlen}

Bound == [i \in 1..Len(_dataclasses) |-> ClassNamed(_dataclasses[i])]

InitParser ==
    /\ hashseed \in HashSeeds
    /\ optq = NoProbe
    /\ coq = NoProbe
    /\ ParserNew
    /\ ProcessNew

\* Spec: parsers over up to MaxClasses record types, short command lines.
MergeClasses == {TraningArguments, IOArguments, OutArguments, TestClass}

Next ==
    \/ \E clz \in ClassTuples(MergeClasses, 1, MaxClasses) : Construct(clz)
    \/ \E args \in Argvs({t_1, t_sgd, t_x}, MaxArgv), split_classes \in BOOLEAN :
           ParseIntoDataclasses(Bound, args, split_classes)

Spec == InitParser /\ [][Next]_vars

\* SpecArgs: parsers over one record type, longer command lines.
MaxTokens == 4

NextArgs ==
    \/ \E c \in {DataArguments, TestClass} : Construct(<<c>>)
    \/ \E args \in Argvs(RawValues, MaxTokens) :
           ParseIntoDataclasses(Bound, args, FALSE)

SpecArgs == InitParser /\ [][NextArgs]_vars

\* SpecFlags: parsers over the record type of boolean fields.
NextFlags ==
    \/ \E c \in {Switches} : Construct(<<c>>)
    \/ \E args \in Argvs({t_x}, MaxArgv), split_classes \in BOOLEAN :
           ParseIntoDataclasses(Bound, args, split_classes)

SpecFlags == InitParser /\ [][NextFlags]_vars

\* SpecSplit: parsers over two record types that declare one field name in
\* common, called in split mode.
NextSplit ==
    \/ \E clz \in ClassTuples({IOArguments, OutArguments}, 2, 2) :
           Construct(clz)
    \/ \E args \in Argvs({t_1}, MaxTokens) :
           ParseIntoDataclasses(Bound, args, TRUE)

SpecSplit == InitParser /\ [][NextSplit]_vars

\* ------------------------------------- SpecRegistry: ComamndLineParser
\* The classmethods mutate the two class attributes; call records the last
\* call made.
MaxPasses == 2

\* The keyword arguments BindingParser.__init__ accepts from the metadata.
ValidParserKeys == {"prog", "usage", "description", "epilog"}

\* dict.update(meta)
Update(m, meta) == {p \in m : ~Has(meta, p[1])} \cup meta

\* ComamndLineParser.register(dataclass)
Register(c) ==
    /\ Len(_classes) < MaxClasses
    /\ _classes' = Append(_classes, c.name)
    /\ call' = [kind |-> "register"]
    /\ UNCHANGED <<hashseed, optq, coq, _dataclasses, _field_info, _actions,
                   status, result, _parser_meta, synthesized>>

\* ComamndLineParser.prog(prog)
Prog(prog) ==
    /\ _parser_meta' = With(_parser_meta, "prog", prog)
    /\ call' = [kind |-> "prog"]
    /\ UNCHANGED <<hashseed, optq, coq, _dataclasses, _field_info, _actions,
                   status, result, _classes, synthesized>>

\* ComamndLineParser.desc(desc)
Desc(desc) ==
    /\ _parser_meta' = With(_parser_meta, "description", desc)
    /\ call' = [kind |-> "desc"]
    /\ UNCHANGED <<hashseed, optq, coq, _dataclasses, _field_info, _actions,
                   status, result, _classes, synthesized>>

\* ComamndLineParser.parser_meta(meta)
ParserMeta(meta) ==
    /\ _parser_meta' = Without(Update(_parser_meta, meta), "clz")
    /\ call' = [kind |-> "parser_meta"]
    /\ UNCHANGED <<hashseed, optq, coq, _dataclasses, _field_info, _actions,
                   status, result, _classes, synthesized>>

\* A registry that is never drained.
AfterPass_kept(registry, out) == registry

\* A registry that is drained however the pass ends.
AfterPass_cleared(registry, out) == [classes |-> <<>>, meta |-> {}]

\* cls._classes.clear(); cls._parser_meta.clear(): reached only when
\* nothing was raised before.
AfterPass(registry, out) ==
    IF out.kind = "raised" THEN registry
    ELSE [classes |-> <<>>, meta |-> {}]

\* BindingParser(*cls._classes, **cls._parser_meta): the descriptors, or the
\* TypeError of a keyword __init__ does not take.
RegistryParser(clz, meta) ==
    IF \E p \in meta : p[1] \notin ValidParserKeys
    THEN Raise("TypeError", None)
    ELSE analysis_dataclass(clz)

\* ComamndLineParser.parse_args(args, split_classes)
RegistryParseArgs(args, split_classes) ==
    /\ synthesized < MaxPasses
    /\ \E clz \in {[i \in 1..Len(_classes) |-> ClassNamed(_classes[i])]} :
       \E res \in {RegistryParser(clz, _parser_meta)} :
       \E declared \in {IF res.ok THEN DeclareAll(res.val, Ok(<<>>), hashseed)
                        ELSE res} :
       \E parsed \in {IF declared.ok THEN parse_args(declared.val, args)
                      ELSE declared} :
       \E out \in {IF declared.ok
                   THEN Reconstruct(res.val, clz, split_classes, parsed)
                   ELSE Outcome("raised", declared)} :
       \E left \in {AfterPass([classes |-> _classes, meta |-> _parser_meta],
                              out)} :
           /\ _dataclasses' = _classes
           /\ _field_info' = IF res.ok THEN res.val ELSE <<>>
           /\ _actions' = IF declared.ok THEN declared.val ELSE <<>>
           /\ status' = IF declared.ok THEN "ready" ELSE "construct_error"
           /\ result' = out
           /\ synthesized' = IF declared.ok
                             THEN Synthesized(synthesized, split_classes,
                                              parsed)
                             ELSE synthesized
           /\ _classes' = left.classes
           /\ _parser_meta' = left.meta
    /\ call' = [kind |-> "parse", types |-> _classes, args |-> args,
                split_classes |-> split_classes, meta |-> _parser_meta]
    /\ UNCHANGED <<hashseed, optq, coq>>

t_must == <<"-", "-", "m", "u", "s", "t">>
RegistryArgvs == {<<>>, <<t_must, t_1>>}
RegistryMetas ==
    {{<<"clz", StrV(t_x)>>}, {<<"usage", StrV(t_x)>>, <<"clz", StrV(t_x)>>},
     {<<"conflict", StrV(t_x)>>}}

NextRegistry ==
    \/ \E c \in {TraningArguments, TestClass} : Register(c)
    \/ \E prog \in {StrV(t_x)} : Prog(prog)
    \/ \E desc \in {StrV(t_x)} : Desc(desc)
    \/ \E meta \in RegistryMetas : ParserMeta(meta)
    \/ \E args \in RegistryArgvs, split_classes \in BOOLEAN :
           RegistryParseArgs(args, split_classes)

SpecRegistry == InitParser /\ [][NextRegistry]_vars

\* ------------------------------ SpecLife: one parser through many calls
\* parse_dataclasses(dataclasses) on a constructed parser.  The test
\* `dataclasses not in self._dataclasses` compares a sequence with each
\* bound class and so always succeeds: res is the analysis of clz alone,
\* self._field_info is replaced by it, and every descriptor is declared on
\* top of the options the parser already has.  bound is _dataclasses as the
\* caller left it.  An exception ends the run of the parser.
Reparse(bound, clz) ==
    \E res \in {analysis_dataclass(clz)} :
    \E declared \in {IF res.ok THEN DeclareAll(res.val, Ok(_actions), hashseed)
                     ELSE res} :
        /\ _dataclasses' = bound
        /\ _field_info' = IF res.ok THEN res.val ELSE _field_info
        /\ _actions' = IF declared.ok THEN declared.val ELSE _actions
        /\ status' = IF declared.ok THEN "ready" ELSE "error"
        /\ result' = IF declared.ok THEN NoResult
                      ELSE Outcome("raised", declared)

\* parser.add_datacalss(cls)
AddDatacalss(c) ==
    /\ status = "ready"
    /\ Reparse(Append(_dataclasses, c.name), <<c>>)
    /\ call' = [kind |-> "add_datacalss"]
    /\ UNCHANGED <<hashseed, optq, coq>>
    /\ ProcessUnchanged

\* parser.parse_dataclasses(): the bound classes are analysed again.
ParseDataclasses ==
    /\ status = "ready"
    /\ Reparse(_dataclasses, Bound)
    /\ call' = [kind |-> "parse_dataclasses"]
    /\ UNCHANGED <<hashseed, optq, coq>>
    /\ ProcessUnchanged

\* parser.parse_dataclasses(dataclasses)
ParseDataclassesOf(clz) ==
    /\ status = "ready"
    /\ Reparse(_dataclasses, clz)
    /\ call' = [kind |-> "parse_dataclasses"]
    /\ UNCHANGED <<hashseed, optq, coq>>
    /\ ProcessUnchanged

\* parser.parse_into_dataclasses(types, args, split_classes), any number of
\* times on one parser.
ParseIntoDataclassesAgain(types, args, split_classes) ==
    /\ status = "ready"
    /\ synthesized < MaxPasses
    /\ call' = [kind |-> "parse", types |-> Names(types), args |-> args,
                split_classes |-> split_classes]
    /\ \E parsed \in {parse_args(_actions, args)} :
           /\ result' = Reconstruct(_field_info, types, split_classes, parsed)
           /\ synthesized' = Synthesized(synthesized, split_classes, parsed)
    /\ UNCHANGED <<hashseed, optq, coq, _dataclasses, _field_info, _actions,
                   status>>
    /\ RegistryUnchanged

\* The k-th smallest member of a set of indices, and the tuples that keep
\* some of the members of seq in their order.
Nth(S, k) == CHOOSE i \in S : Cardinality({j \in S : j < i}) = k - 1
SubTuples(seq) ==
    {[k \in 1..Cardinality(S) |-> seq[Nth(S, k)]] :
         S \in SUBSET (1..Len(seq)) \ {{}}}

MaxLife == 3
LifeClasses == {TraningArguments, TestClass, DataArguments}

NextLife ==
    \/ \E clz \in ClassTuples(LifeClasses, 0, MaxLife) : Construct(clz)
    \/ \E c \in LifeClasses : AddDatacalss(c)
    \/ ParseDataclasses
    \/ \E c \in LifeClasses : ParseDataclassesOf(<<c>>)
    \/ \E types \in SubTuples(Bound), args \in RegistryArgvs,
          split_classes \in BOOLEAN :
           ParseIntoDataclassesAgain(types, args, split_classes)

SpecLife == InitParser /\ [][NextLife]_vars

\* ------------------------------------------- SpecCoerce: one field, one
\* raw string: the descriptor of the field, the option declared for it, the
\* descriptor's coercion applied to the string, and what the parsing engine
\* makes of the string as the option's argument.
Mode ==
    EnumType("Mode", <<Member("One", IntV(1)), Member("Two", IntV(2))>>)

SepField(name, type, sep) ==
    Declare(name, type, field(None, MISSING, {<<"sep", StrV(sep)>>}))

CoerceFields ==
    {TraningArguments.fields[1],
     IOArguments.fields[2],
     Defaulted(<<"m", "o", "d", "e">>, Mode, EnumV("Mode", "One")),
     DataArguments.fields[1],
     DataArguments.fields[2],
     SepField(<<"i", "d", "s">>, Generic("Set", <<Plain("int")>>), t_comma),
     SepField(<<"t", "a", "g", "s">>, Generic("Tuple", <<Plain("str")>>),
              t_comma),
     SepField(<<"d", "q">>, Generic("Deque", <<Plain("int")>>), t_comma),
     SepField(<<"q", "q">>, Generic("Queue", <<Plain("int")>>), t_comma),
     SepField(<<"l", "l">>, Generic("List", <<Plain("int")>>), <<"1">>),
     SepField(<<"e", "e">>, Generic("List", <<Plain("int")>>), <<>>)}

RawAlphabet == {"1", "2", "3", ","}

Raws == Texts(RawAlphabet, 0, MaxRawLen) \cup {t_adam, t_sgd}

InitCoerce ==
    /\ hashseed \in HashSeeds
    /\ optq = NoProbe
    /\ coq \in [kind : {"coerce"}, fld : CoerceFields, raw : Raws,
                 stage : {"new"}, desc : {None}, action : {None},
                 out : {None}, got : {None}]
    /\ ParserNew
    /\ ProcessNew

\* analysis_filed(fld), then the add_argument of parse_dataclasses.
CoerceAnalyse ==
    /\ coq.kind = "coerce" /\ coq.stage = "new"
    /\ \E d \in {analysis_filed(coq.fld)} :
       \E declared \in {IF d.ok /\ d.val # None
                        THEN DeclareAll(<<<<coq.fld.name, d.val>>>>, Ok(<<>>),
                                        hashseed)
                        ELSE d} :
           coq' = [coq EXCEPT !.stage = "analysed",
                              !.desc = d,
                              !.action = IF declared.ok /\ d.val # None
                                         THEN Ok(declared.val[1])
                                         ELSE declared]
    /\ ParserUnchanged
    /\ ProcessUnchanged
    /\ UNCHANGED <<hashseed, optq>>

\* descriptor.type(raw)
CoerceCall ==
    /\ coq.kind = "coerce" /\ coq.stage = "analysed"
    /\ coq.desc.ok /\ coq.desc.val # None
    /\ coq' = [coq EXCEPT !.stage = "called",
                          !.out = Apply(coq.desc.val.type, StrV(coq.raw))]
    /\ ParserUnchanged
    /\ ProcessUnchanged
    /\ UNCHANGED <<hashseed, optq>>

\* argparse reading raw as the one argument string of the option.
CoerceEngine ==
    /\ coq.kind = "coerce" /\ coq.stage = "called"
    /\ coq.action.ok
    /\ coq' = [coq EXCEPT !.stage = "converted",
                          !.got = _get_values(coq.action.val, <<coq.raw>>)]
    /\ ParserUnchanged
    /\ ProcessUnchanged
    /\ UNCHANGED <<hashseed, optq>>

NextCoerce == CoerceAnalyse \/ CoerceCall \/ CoerceEngine

SpecCoerce == InitCoerce /\ [][NextCoerce]_vars

\* ------------------------------------------- SpecField: one declaration
\* of a field, analysed, declared as the one option of a parser, parsed
\* from a command line and reconstructed into the class that holds it.
\* A declaration is how the class body sets the field: "field" for
\* `name: type`, `name: type = value` and `= field(default=, metadata=)`,
\* "BindingField" for `= BindingField(**kw)`.
t_r == <<"r">>
t_n == <<"n">>
t_c == <<"c">>
t_u == <<"u">>
t_lit == <<"l", "i", "t">>

\* class U: pass
U == Plain("U")

Literal_1_2 == Generic("Literal", <<IntV(1), IntV(2)>>)

Declaration(how, name, type, kw) ==
    [how |-> how, name |-> name, type |-> type, kw |-> kw]

DeclaredField(d) ==
    Declare(d.name, d.type,
            IF d.how = "BindingField" THEN BindingField(d.kw)
            ELSE field(Get(d.kw, "default", MISSING),
                       Get(d.kw, "default_factory", MISSING),
                       Get(d.kw, "metadata", {})))

Choices_1_2 == TupleV(<<StrV(t_1), StrV(t_2)>>)

\* (1, 2)
Ints_1_2 == TupleV(<<IntV(1), IntV(2)>>)

BindingDeclarations ==
    {Declaration("BindingField", t_n, Plain("int"),
                 {<<"default", IntV(1)>>, <<"type", Fn("str")>>}),
     Declaration("BindingField", t_n, Plain("int"),
                 {<<"default", IntV(1)>>, <<"type", Fn("str")>>,
                  <<"file", None>>}),
     Declaration("BindingField", <<"l", "l">>,
                 Generic("List", <<Plain("int")>>),
                 {<<"default", None>>, <<"sep", StrV(t_comma)>>}),
     Declaration("BindingField", t_c, Plain("str"),
                 {<<"default", StrV(t_1)>>, <<"choices", Choices_1_2>>}),
     Declaration("BindingField", t_r, Plain("int"), {}),
     Declaration("BindingField", t_r, Plain("int"),
                 {<<"required", BoolV(TRUE)>>}),
     Declaration("BindingField", t_u, U, {<<"default", None>>}),
     Declaration("BindingField", t_u, U,
                 {<<"default", None>>, <<"type", Fn("str")>>,
                  <<"file", None>>})}

SepMetadata == {<<"default", None>>,
                <<"metadata", {<<"sep", StrV(t_comma)>>}>>}

FieldDeclarations ==
    {Declaration("field", t_u, U, {}),
     Declaration("field", t_u, U, {<<"default", None>>}),
     Declaration("field", t_u, U,
                 {<<"default", None>>,
                  <<"metadata", {<<"help", StrV(t_x)>>}>>}),
     Declaration("field", t_u, U,
                 {<<"default", None>>,
                  <<"metadata", {<<"type", Fn("str")>>}>>}),
     Declaration("field", t_u, Plain("Any"), {<<"default", None>>}),
     Declaration("field", t_u, Generic("List", <<U>>), {<<"default", None>>}),
     Declaration("field", t_r, Plain("int"), {}),
     Declaration("field", t_lit, Literal_1_2, {<<"default", IntV(1)>>}),
     Declaration("field", t_lit, Optional(Literal_1_2), {<<"default", None>>}),
     Declaration("field", t_lit, Plain("Literal"), {<<"default", IntV(1)>>}),
     Declaration("field", t_lit, Mode, {<<"default", EnumV("Mode", "One")>>}),
     Declaration("field", <<"l", "l">>, Generic("List", <<Plain("int")>>),
                 {<<"default", Ints_1_2>>}),
     Declaration("field", <<"l", "l">>, Generic("List", <<Plain("int")>>),
                 {<<"default_factory", ListV(Ints_1_2.v)>>}),
     Declaration("field", <<"t", "t">>, Generic("Tuple", <<Plain("str")>>),
                 {<<"default", Choices_1_2>>}),
     Declaration("field", <<"t", "t">>, Plain("Tuple"),
                 {<<"default", Ints_1_2>>}),
     Declaration("field", <<"t", "t">>,
                 Generic("Tuple", <<Plain("int"), Plain("Ellipsis")>>),
                 {<<"default", Ints_1_2>>}),
     Declaration("field", <<"l", "l">>, Generic("List", <<Plain("int")>>),
                 SepMetadata),
     Declaration("field", <<"t", "t">>, Generic("Tuple", <<Plain("int")>>),
                 SepMetadata),
     Declaration("field", <<"s", "s">>, Generic("Set", <<Plain("int")>>),
                 SepMetadata),
     Declaration("field", <<"q", "q">>, Generic("Queue", <<Plain("int")>>),
                 SepMetadata),
     Declaration("field", <<"d", "q">>, Generic("Deque", <<Plain("int")>>),
                 SepMetadata)}

Declarations == BindingDeclarations \cup FieldDeclarations

FieldRaws == {t_1, t_2, t_1_2, t_x}

InitField ==
    /\ hashseed \in HashSeeds
    /\ optq = NoProbe
    /\ \E d \in Declarations, raw \in FieldRaws :
           coq = [kind |-> "coerce", decl |-> d, fld |-> DeclaredField(d),
                  raw |-> raw, stage |-> "new", desc |-> None,
                  action |-> None, out |-> None, got |-> None,
                  args |-> None, parsed |-> None, built |-> None]
    /\ ParserNew
    /\ ProcessNew

\* BindingParser(Holder) for the class Holder that has the one field, then
\* parse_into_dataclasses((Holder,), args, split_classes=True).
FieldParse(args) ==
    /\ coq.kind = "coerce" /\ coq.stage = "analysed"
    /\ coq.action.ok
    /\ \E parsed \in {parse_args(<<coq.action.val>>, args)} :
           coq' = [coq EXCEPT
                      !.stage = "built",
                      !.args = args,
                      !.parsed = parsed,
                      !.built = Reconstruct(
                                    <<<<coq.fld.name, coq.desc.val>>>>,
                                    <<DataClass("Holder", <<coq.fld>>)>>,
                                    TRUE, parsed)]
    /\ ParserUnchanged
    /\ ProcessUnchanged
    /\ UNCHANGED <<hashseed, optq>>

NextField ==
    \/ CoerceAnalyse
    \/ CoerceCall
    \/ FieldParse(<<>>)
    \/ FieldParse(<<coq.action.val.option_strings[1], coq.raw>>)

SpecField == InitField /\ [][NextField]_vars

\* ---------------------------------------- SpecClassify: one annotation
\* handed to _analysis_type, next to the classification of its first arm.
ScalarTypes == {Plain("int"), Plain("str"), Plain("float"), Plain("bytes")}

\* Annotations that are classes: `X | None` between them is a
\* types.UnionType.
ClassTypes ==
    ScalarTypes \cup {Plain("bool"), U, Mode, Plain("TextIO"),
                      Generic("Queue", <<Plain("int")>>)}

\* Dict[K, V] and typing.Dict itself.
DictArgs ==
    ScalarTypes \cup {Plain("Any"), Plain("bool"),
                      Generic("List", <<Plain("int")>>)}

DictTypes ==
    {Generic("Dict", <<K, V>>) : K \in DictArgs, V \in DictArgs}
        \cup {Plain("Dict")}

\* Subscripted typing forms: `X | None` on them is typing.Union.
TypingForms ==
    {Generic(k, <<Plain("int")>>) : k \in {"List", "Tuple", "Set", "Deque"}}
        \cup {Literal_1_2} \cup DictTypes

ArmTypes == ClassTypes \cup TypingForms \cup {Plain("Any")}

SecondArms == {Plain("int"), Plain("str"), Generic("List", <<Plain("int")>>)}

\* X | Y
Or(X, Y) ==
    IF X \in TypingForms \/ Y \in TypingForms
    THEN Generic("Union", <<X, Y>>)
    ELSE Generic("UnionType", <<X, Y>>)

\* The annotations written around a first arm X.
Annotations(X) ==
    {X, Optional(X)}
        \cup (IF X = Plain("Any") THEN {} ELSE {Or(X, NoneType)})
        \cup {Generic("Union", <<X, Y>>) : Y \in SecondArms \ {X}}
        \cup {Generic("Union", <<X, Y, NoneType>>) : Y \in SecondArms \ {X}}
        \cup (IF X \in ClassTypes
              THEN {Generic("UnionType", <<X, Y>>) :
                        Y \in (SecondArms \cap ClassTypes) \ {X}}
              ELSE {})

InitClassify ==
    /\ hashseed \in HashSeeds
    /\ optq = NoProbe
    /\ \E X \in ArmTypes : \E dtype \in Annotations(X) :
           coq = [kind |-> "classify", X |-> X, dtype |-> dtype,
                  out |-> None, arm |-> None, raw |-> None, got |-> None]
    /\ ParserNew
    /\ ProcessNew

\* _analysis_type(dtype)
Classify ==
    /\ coq.kind = "classify" /\ coq.out = None
    /\ coq' = [coq EXCEPT !.out = _analysis_type(coq.dtype)]
    /\ ParserUnchanged
    /\ ProcessUnchanged
    /\ UNCHANGED <<hashseed, optq>>

\* _analysis_type(X)
ClassifyArm ==
    /\ coq.kind = "classify" /\ coq.arm = None
    /\ coq' = [coq EXCEPT !.arm = _analysis_type(coq.X)]
    /\ ParserUnchanged
    /\ ProcessUnchanged
    /\ UNCHANGED <<hashseed, optq>>

\* Command-line texts for a dictionary option: JSON objects, a file path
\* and a text that is neither.
JsonRaws ==
    {<<"{", Quote, "1", Quote, ":", Quote, "2", Quote, "}">>,
     <<"{", Quote, "1", Quote, ":", Quote, "2", Quote, ",",
       Quote, "a", Quote, ":", "3", "}">>,
     <<"c">>,
     <<"n", "o">>}

\* The coercion the classifier returned, called on a command-line text.
ApplyCoercion(raw) ==
    /\ coq.kind = "classify" /\ coq.out # None /\ coq.got = None
    /\ coq.dtype = coq.X
    /\ coq.out.ok /\ Callable(coq.out.val.fn)
    /\ coq' = [coq EXCEPT !.raw = raw,
                          !.got = Apply(coq.out.val.fn, StrV(raw))]
    /\ ParserUnchanged
    /\ ProcessUnchanged
    /\ UNCHANGED <<hashseed, optq>>

NextClassify ==
    \/ Classify
    \/ ClassifyArm
    \/ \E raw \in JsonRaws : ApplyCoercion(raw)

SpecClassify == InitClassify /\ [][NextClassify]_vars

\* ------------------------------------------------------------ the claims
\* The descriptor and the declared option of a field name.
Descriptor(name) == DictGet(_field_info, name)
ActionFor(name) ==
    _actions[CHOOSE i \in 1..Len(_actions) : _actions[i].dest = name]
FieldNames == {_field_info[i][1] : i \in 1..Len(_field_info)}
Spellings(name) == Range(ActionFor(name).option_strings)

\* The option of a field occurs in the command line of the call.
Supplied(name) ==
    \E k \in 1..Len(call.args) : call.args[k] \in Spellings(name)

\* The instances a call returned.
Instances ==
    IF result.kind = "instance" THEN {result.item}
    ELSE IF result.kind = "tuple" THEN Range(result.items)
    ELSE {}

Parsed == status = "ready" /\ call.kind = "parse"

BoolFields == {n \in FieldNames : Descriptor(n).wrapper_type = "Bool"}

\* The flag spellings claim C2 allows a boolean descriptor.
C2Spellings(d) ==
    LET prefix == IF d.default = BoolV(TRUE)
                  THEN <<"-", "-", "w", "i", "t", "h", "o", "u", "t">>
                  ELSE <<"-", "-", "w", "i", "t", "h">>
    IN UNION {{prefix \o <<"-">> \o Replace(n, "_", "-"),
               prefix \o <<"_">> \o Replace(n, "-", "_")} :
                  n \in {d.name} \cup AliasNames(d)}

\* C2: a boolean field with default True is declared with exactly the
\* --without-<dashed> and --without_<underscored> spellings of its name and
\* aliases, a supplied flag makes the field False and an omitted one leaves
\* it True; with default False the spellings are --with-/--with_, a supplied
\* flag makes the field True and an omitted one leaves it False; no bare
\* --<name> is declared, and a command line of flags alone is accepted.
C2_BooleanFlags ==
    status = "ready" =>
        \A n \in BoolFields :
            LET d == Descriptor(n)
                on == d.default = BoolV(TRUE)
            IN /\ Spellings(n) = C2Spellings(d)
               /\ \A b \in {d.name} \cup AliasNames(d) :
                      <<"-", "-">> \o b \notin Spellings(n)
               /\ Parsed =>
                      /\ \A item \in Instances :
                             DictGet(item, n)
                                 = BoolV(IF on THEN ~Supplied(n)
                                         ELSE Supplied(n))
                      /\ (\A k \in 1..Len(call.args) :
                              \E m \in BoolFields :
                                  call.args[k] \in Spellings(m))
                         => Instances # {}

\* Both flags supplied, one by an alias spelling: do_train False, dev True.
C2_Witness ==
    /\ Parsed /\ result.kind = "instance"
    /\ <<"-", "-", "w", "i", "t", "h", "_", "d">> \in Range(call.args)
    /\ <<"-", "-", "w", "i", "t", "h", "o", "u", "t", "-", "d", "o", "-",
          "t", "r", "a", "i", "n">> \in Range(call.args)
    /\ DictGet(result.item, <<"d", "o", "_", "t", "r", "a", "i", "n">>)
           = BoolV(FALSE)
    /\ DictGet(result.item, <<"d", "e", "v">>) = BoolV(TRUE)

\* The declared fields of the bound classes that have neither a default nor
\* a default factory (and no metadata overriding requiredness).
RequiredFields ==
    {n \in FieldNames :
        \E i \in 1..Len(Bound) : \E j \in 1..Len(Bound[i].fields) :
            LET f == Bound[i].fields[j]
            IN /\ f.name = n
               /\ f.default = MISSING /\ f.default_factory = MISSING
               /\ ~Has(f.metadata, "required")
               /\ \A i2 \in (i + 1)..Len(Bound) :
                      \A j2 \in 1..Len(Bound[i2].fields) :
                          Bound[i2].fields[j2].name # n}

RequiredDeclared(n) ==
    /\ Descriptor(n).required = BoolV(TRUE)
    /\ ActionFor(n).required
    /\ ActionFor(n).default = None

Fatal == result.kind = "raised" /\ result.exc = "SystemExit"

Coerced == coq.kind = "coerce" /\ coq.stage \in {"called", "converted"}

\* The members of an enumeration or literal-set type, and the string
\* representation of each member's value.
EnumLike(type) == type.k \in {"Enum", "Literal"}
MemberAt(type, i) ==
    IF type.k = "Literal" THEN type.args[i]
    ELSE EnumV(type.cls, type.args[i].name)
RepresentationAt(type, i) ==
    PyStr(IF type.k = "Literal" THEN type.args[i] ELSE type.args[i].value)

\* C4: the coercion of an enumeration or literal-set field maps the string
\* representation of each member's value to that member, and applied to any
\* other string it raises an error naming the string: it yields no value.
C4_EnumCoercion ==
    (Coerced /\ EnumLike(coq.fld.type)) =>
        LET type == coq.fld.type
            hits == {i \in 1..Len(type.args) :
                        RepresentationAt(type, i) = coq.raw}
        IN IF hits # {}
           THEN \A i \in hits : coq.out = Ok(MemberAt(type, i))
           ELSE ~coq.out.ok /\ coq.out.about = StrV(coq.raw)

\* A collection field whose metadata carries a (non-empty) separator.
SepCollection(fld) ==
    /\ fld.type.k \in {"List", "Tuple", "Set", "Deque", "Queue"}
    /\ Has(fld.metadata, "sep")
    /\ Get(fld.metadata, "sep", None).t = "str"
    /\ Len(Get(fld.metadata, "sep", None).v) = 1

\* The pieces of raw between the occurrences of the one-character
\* separator c, counted from 1.
CutAt(raw, c, k) ==
    LET P == {i \in 1..Len(raw) : raw[i] = c}
    IN IF k = 0 THEN 0
       ELSE IF k > Cardinality(P) THEN Len(raw) + 1
       ELSE CHOOSE p \in P : Cardinality({q \in P : q < p}) = k - 1
PieceAt(raw, c, k) ==
    SubSeq(raw, CutAt(raw, c, k - 1) + 1, CutAt(raw, c, k) - 1)
PieceCount(raw, c) == Cardinality({i \in 1..Len(raw) : raw[i] = c}) + 1

ElementOf(T, piece) ==
    IF T.k = "int" THEN IntOfText(piece) ELSE Ok(StrV(piece))

ContainerOf(kind, items) ==
    CASE kind = "List" -> ListV(items)
      [] kind = "Tuple" -> TupleV(items)
      [] kind = "Set" -> SetV(items)
      [] kind = "Deque" -> DequeV(items)
      [] kind = "Queue" -> QueueV(items)

t_1_2_3 == <<"1", ",", "2", ",", "3">>

\* C5: the coercion of a collection field with separator s and element
\* type T splits the raw string on s, applies T to each piece in order and
\* wraps the results in the container of the field's kind (it fails when T
\* fails on a piece); "1,2,3" for List[int] and "," is [1, 2, 3]; and the
\* option is declared single-valued.
C5_SeparatorCollection ==
    (Coerced /\ SepCollection(coq.fld)) =>
        LET c == Get(coq.fld.metadata, "sep", None).v[1]
            T == coq.fld.type.args[1]
            n == PieceCount(coq.raw, c)
            elems == [k \in 1..n |-> ElementOf(T, PieceAt(coq.raw, c, k))]
        IN /\ coq.action.ok /\ coq.action.val.nargs = "1"
           /\ IF \A k \in 1..n : elems[k].ok
              THEN coq.out = Ok(ContainerOf(coq.fld.type.k,
                                            [k \in 1..n |-> elems[k].val]))
              ELSE ~coq.out.ok
           /\ (coq.fld = DataArguments.fields[2] /\ coq.raw = t_1_2_3)
                  => coq.out = Ok(ListV(<<IntV(1), IntV(2), IntV(3)>>))

\* "1,2,3" coerced by the List[int] field with separator ",".
C5_Witness ==
    /\ Coerced
    /\ coq.fld = DataArguments.fields[2]
    /\ coq.raw = t_1_2_3
    /\ coq.out = Ok(ListV(<<IntV(1), IntV(2), IntV(3)>>))
    /\ coq.action.val.nargs = "1"

\* The integer collection fields declared variadic (no separator).
VariadicFields ==
    {n \in FieldNames : /\ Descriptor(n).multiple = BoolV(TRUE)
                        /\ Descriptor(n).seperator = None
                        /\ Descriptor(n).type = Fn("int")}

IntTexts == {t_1, t_2}
IntsOf(texts) == ListV([i \in 1..Len(texts) |-> IntOfText(texts[i]).val])

Accepted == parse_args(_actions, call.args).ok

MergeCall == Parsed /\ ~call.split_classes

\* The raw strings that follow the last occurrence of the option of n.
LastOccurrence(n) ==
    CHOOSE k \in 1..Len(call.args) :
        /\ call.args[k] \in Spellings(n)
        /\ \A m \in (k + 1)..Len(call.args) : call.args[m] \notin Spellings(n)

RECURSIVE RunFrom(_)
RunFrom(k) ==
    IF k > Len(call.args) \/ IsOptionToken(call.args[k]) THEN <<>>
    ELSE <<call.args[k]>> \o RunFrom(k + 1)

\* The coerced command-line value of a supplied field.
SuppliedValue(n) ==
    LET d == Descriptor(n)
        run == RunFrom(LastOccurrence(n) + 1)
        conv(x) == IF d.type = None THEN x ELSE Apply(d.type, x).val
    IN IF d.multiple = BoolV(TRUE) /\ d.seperator = None
       THEN ListV([i \in 1..Len(run) |-> conv(StrV(run[i]))])
       ELSE conv(StrV(run[1]))

\* C1: in merge mode every accepted command line returns one instance in
\* which each field holds the coerced command-line value when its option
\* was supplied and the descriptor's default when it was omitted.
C1_MergeModeValues ==
    (MergeCall /\ Accepted) =>
        /\ result.kind = "instance"
        /\ \A n \in FieldNames :
               DictGet(result.item, n)
                   = IF Supplied(n) THEN SuppliedValue(n)
                     ELSE Descriptor(n).default

\* The field names two of the bound classes both declare.
DeclaredIn(i) == {Bound[i].fields[j].name : j \in 1..Len(Bound[i].fields)}
FieldOf(i, n) ==
    Bound[i].fields[CHOOSE j \in 1..Len(Bound[i].fields) :
                        Bound[i].fields[j].name = n]

\* C9: a field name declared by two bound types has one descriptor, built
\* from the later-registered type (its default and aliases), and one
\* declared option; merge mode returns, for every accepted command line,
\* one composite instance carrying the field once, with the later type's
\* default when the option is omitted.
C9_LaterTypeWins ==
    status = "ready" =>
        \A i, j \in 1..Len(Bound) : \A n \in DeclaredIn(i) \cap DeclaredIn(j) :
            i < j =>
                LET later == FieldOf(j, n)
                IN /\ Cardinality({k \in 1..Len(_field_info) :
                                       _field_info[k][1] = n}) = 1
                   /\ Descriptor(n).default = later.default
                   /\ Descriptor(n).aliases
                          = Get(later.metadata, "aliases", None)
                   /\ Cardinality({k \in 1..Len(_actions) :
                                       _actions[k].dest = n}) = 1
                   /\ (MergeCall /\ Accepted) =>
                          /\ result.kind = "instance"
                          /\ Cardinality({k \in 1..Len(result.item) :
                                              result.item[k][1] = n}) = 1
                          /\ ~Supplied(n) =>
                                 DictGet(result.item, n) = later.default

\* C10: in merge mode, whatever mix of required and defaulted fields the
\* bound types declare and in whatever order they are given, a command line
\* that supplies all required options yields exactly one instance of the
\* composite type, whose fields are the union of the types' fields.
C10_MergeSynthesized ==
    (MergeCall /\ Accepted
        /\ \A n \in FieldNames : ActionFor(n).required => Supplied(n)) =>
        /\ result.kind = "instance"
        /\ {result.item[k][1] : k \in 1..Len(result.item)}
               = UNION {DeclaredIn(i) : i \in 1..Len(Bound)}
        /\ Len(result.item)
               = Cardinality(UNION {DeclaredIn(i) : i \in 1..Len(Bound)})

\* The target types of the call.
Targets == [i \in 1..Len(call.types) |-> ClassNamed(call.types[i])]
NamesOf(flds) == {flds[j].name : j \in 1..Len(flds)}
ItemNames(item) == {item[k][1] : k \in 1..Len(item)}

\* C11: in split mode an accepted command line returns one instance per
\* target type, in target order, and a field name declared by two target
\* types holds the same parsed value in both instances.
C11_SplitSharedValue ==
    (Parsed /\ call.split_classes /\ Accepted) =>
        /\ result.kind = "tuple"
        /\ Len(result.items) = Len(Targets)
        /\ \A i \in 1..Len(Targets) :
               ItemNames(result.items[i]) = NamesOf(Targets[i].fields)
        /\ \A i, j \in 1..Len(Targets) :
               \A n \in NamesOf(Targets[i].fields)
                          \cap NamesOf(Targets[j].fields) :
                   /\ DictGet(result.items[i], n) = DictGet(result.items[j], n)
                   /\ Supplied(n) =>
                          DictGet(result.items[i], n) = SuppliedValue(n)

\* A ComamndLineParser.parse_args call has returned instances.
Returned == call.kind = "parse" /\ result.kind \in {"instance", "tuple"}

\* C12: after any sequence of register / prog / desc / parser_meta calls
\* followed by a ComamndLineParser.parse_args call that returns instances,
\* the registry's list of record types and its parser metadata are empty,
\* and the parser of the pass was built from what was registered.
C12_RegistryDrained ==
    Returned =>
        /\ _classes = <<>>
        /\ _parser_meta = {}
        /\ _dataclasses = call.types

\* A pass over a registry holding two types and metadata has returned.
C12_Witness ==
    /\ Returned
    /\ Len(call.types) = 2
    /\ call.meta # {}
    /\ _classes = <<>>
    /\ _parser_meta = {}

\* The destinations of the options declared on the parser.
Destinations == {_actions[i].dest : i \in 1..Len(_actions)}

\* C13: after construction and any sequence of add_datacalss and
\* parse_dataclasses calls, the descriptor mapping holds a descriptor for
\* every declared option destination, and a parse_into_dataclasses over
\* all bound record types meets no lookup failure.
C13_DescriptorsComplete ==
    status = "ready" =>
        /\ Destinations \subseteq FieldNames
        /\ (call.kind = "parse" /\ call.types = _dataclasses) =>
               ~(result.kind = "raised" /\ result.exc = "KeyError")

Analysed == coq.kind = "coerce" /\ coq.stage # "new"

\* The caller passed keyword k to BindingField.
Passed(k) == coq.decl.how = "BindingField" /\ Has(coq.decl.kw, k)

\* The conversion function the caller supplied for the field, or None.
SuppliedType ==
    IF coq.decl.how = "BindingField" THEN Get(coq.decl.kw, "type", None)
    ELSE Get(Get(coq.decl.kw, "metadata", {}), "type", None)

\* C14: for a field declared through BindingField without the file flag,
\* the supplied `type`, `sep` and `choices` are stored in the field's
\* metadata and take effect in the descriptor: its coercion is the supplied
\* function, its separator is `sep` for a collection field, and its choices
\* are the supplied list.
C14_OverridesTakeEffect ==
    (Analysed /\ coq.decl.how = "BindingField" /\ ~Passed("file")) =>
        /\ coq.desc.ok
        /\ Passed("type") =>
               /\ Get(coq.fld.metadata, "type", None) = Get(coq.decl.kw, "type", None)
               /\ coq.desc.val.type = Get(coq.decl.kw, "type", None)
        /\ Passed("sep") =>
               /\ Get(coq.fld.metadata, "sep", None)
                      = Get(coq.decl.kw, "sep", None)
               /\ coq.desc.val.wrapper_type \in CollectionKinds =>
                      coq.desc.val.seperator = Get(coq.decl.kw, "sep", None)
        /\ Passed("choices") =>
               /\ Get(coq.fld.metadata, "choices", None)
                      = Get(coq.decl.kw, "choices", None)
               /\ coq.desc.val.choices = Get(coq.decl.kw, "choices", None)

\* C15: a field declared through BindingField with neither default nor
\* default_factory, and without `required`, is a required option: its
\* descriptor has required = True and a parse that does not supply the
\* option is an error.
C15_BindingFieldRequired ==
    (Analysed /\ coq.decl.how = "BindingField"
       /\ ~Passed("default") /\ ~Passed("default_factory")
       /\ ~Passed("required")) =>
        /\ coq.desc.ok
        /\ coq.desc.val.required = BoolV(TRUE)
        /\ (coq.stage = "built" /\ coq.args = <<>>) =>
               coq.built.kind = "raised"

\* The declared type classifies as Unknown.
ClassifiesUnknown ==
    /\ _analysis_type(coq.fld.type).ok
    /\ _analysis_type(coq.fld.type).val.w = "Unknown"

\* C16: a field whose declared type classifies as Unknown and for which no
\* conversion function was supplied - declared plainly, with raw metadata or
\* through BindingField - fails with the construction error naming the
\* field; no descriptor is produced and no option is declared.
C16_UnknownFails ==
    (Analysed /\ ClassifiesUnknown /\ SuppliedType = None) =>
        /\ ~coq.desc.ok
        /\ coq.desc.exc = "Exception"
        /\ coq.desc.about = StrV(coq.fld.name)
        /\ ~coq.action.ok

\* The value the parse left in the namespace for the field.
NamespaceValue == DictGet(coq.parsed.val, coq.fld.name)

\* C18: at reconstruction, a value of a collection field that the
\* separator coercion already built as the kind's container (list, tuple,
\* set, queue, deque) reaches the instance unchanged, and reconstruction
\* does not fail on it, for each of the five container kinds.
C18_BuiltContainersPassThrough ==
    (/\ Analysed /\ coq.stage = "built" /\ coq.parsed.ok
     /\ coq.desc.val.wrapper_type \in CollectionKinds
     /\ Truthy(coq.desc.val.seperator)
     /\ NamespaceValue.t \in {"list", "tuple", "set", "queue", "deque"}) =>
        /\ coq.built.kind = "tuple"
        /\ DictGet(coq.built.items[1], coq.fld.name) = NamespaceValue

\* The declared type without the Optional around it.
Declared ==
    IF coq.fld.type.k = "Union" THEN NotNoneArgs(coq.fld.type)[1]
    ELSE coq.fld.type

\* C19: a field whose declared type is a literal-set, or an optional of
\* one, gets wrapper kind Literal, a field whose declared type is an
\* enumeration gets wrapper kind Enum, and both carry the string forms of
\* their members as choices and the lookup from them as coercion.
C19_LiteralAndEnumKinds ==
    (Analysed /\ (Declared.k = "Enum"
                    \/ (Declared.k = "Literal" /\ Declared.hasargs))) =>
        /\ coq.desc.ok
        /\ coq.desc.val.wrapper_type
               = (IF Declared.k = "Literal" THEN "Literal" ELSE "Enum")
        /\ coq.desc.val.choices = TupleV(_get_choices(Declared))
        /\ coq.desc.val.type.f = "str2choice.get"

\* The types that match none of the shapes the classifier recognizes.
Unrecognized == {U, Plain("Any")}

\* C20: a declared type that matches none of the recognized shapes is
\* classified (None, Complex), and a field of such a type without a
\* conversion function still gets a descriptor.
C20_UnrecognizedIsComplex ==
    (Analysed /\ coq.fld.type \in Unrecognized /\ SuppliedType = None) =>
        /\ _analysis_type(coq.fld.type) = Classified(FnNone, "Complex")
        /\ coq.desc.ok
        /\ coq.desc.val.wrapper_type = "Complex"

\* -------------------------------------------- claims over SpecClassify
\* The arms of a union annotation that are not NoneType.
Arms == SelectSeq(coq.dtype.args, LAMBDA a : a # NoneType)

IsUnionAnnotation ==
    coq.kind = "classify" /\ coq.dtype.k \in {"Union", "UnionType"}

\* C21: classifying a union whose only non-absent arm is X gives exactly
\* the coercion and wrapper kind of classifying X, and classifying a union
\* with two or more non-absent arms raises a construction-time error and
\* returns no classification.
C21_OptionalIsItsArm ==
    (IsUnionAnnotation /\ coq.out # None /\ coq.arm # None) =>
        /\ Len(Arms) = 1 => coq.out = coq.arm
        /\ Len(Arms) > 1 => (~coq.out.ok /\ coq.out.exc = "ValueError")

\* The generic arguments a dictionary type may have: scalars and Any.
DictPassable == ScalarTypes \cup {Plain("Any")}

\* The annotation is a dictionary type with two passable arguments, or
\* typing.Dict itself.
PassableDict ==
    /\ coq.kind = "classify" /\ coq.dtype.k = "Dict"
    /\ coq.dtype.hasargs =>
           /\ Len(coq.dtype.args) = 2
           /\ \A i \in 1..2 : coq.dtype.args[i] \in DictPassable

\* The entries of the JSON object the text spells.
Entries == json_loads(coq.raw).val.v

\* C22: a dictionary type with exactly two generic arguments, each a scalar
\* or the untyped pass-through, is classified Dict with a coercion that
\* applies the key and value conversions to every entry (Any meaning
\* identity); Dict[str, Any] is classified Dict, and only arguments outside
\* that set give Complex.
C22_DictClassified ==
    (coq.kind = "classify" /\ coq.dtype.k = "Dict" /\ coq.out # None) =>
        IF PassableDict
        THEN /\ coq.out.ok
             /\ coq.out.val.w = "Dict"
             /\ coq.out.val.fn.f = "dict_type_fn"
             /\ (coq.got # None /\ coq.got.ok /\ json_loads(coq.raw).ok) =>
                    \A i \in 1..Len(Entries) :
                        DictGet(coq.got.val.v,
                                Apply(DictArgFn(coq.out.val.fn.k_type),
                                      Entries[i][1]).val)
                            = Apply(DictArgFn(coq.out.val.fn.v_type),
                                    Entries[i][2]).val
        ELSE coq.out = Classified(FnNone, "Complex")

\* The default the class body declares for the field, or None.
DeclaredDefault ==
    IF coq.fld.default # MISSING THEN coq.fld.default
    ELSE IF coq.fld.default_factory # MISSING THEN coq.fld.default_factory
    ELSE None

\* The declared type classifies as one of the five collection kinds.
ClassifiesCollection ==
    /\ _analysis_type(coq.fld.type).ok
    /\ _analysis_type(coq.fld.type).val.w \in CollectionKinds

\* C23: for a collection-kind field declared with a non-None default and no
\* separator, building the descriptor succeeds, and a parse that omits the
\* option reconstructs the field as the kind's container holding exactly
\* the elements of the declared default.
C23_CollectionDefaultKept ==
    (/\ Analysed /\ ClassifiesCollection
     /\ DeclaredDefault # None
     /\ ~Has(coq.fld.metadata, "sep")) =>
        /\ coq.desc.ok
        /\ (coq.stage = "built" /\ coq.args = <<>>) =>
               /\ coq.built.kind = "tuple"
               /\ Ok(DictGet(coq.built.items[1], coq.fld.name))
                      = WrapperApply(
                            WrapperCls(_analysis_type(coq.fld.type).val.w),
                            DeclaredDefault)

\* ---------------------------------------------- claims over SpecRegistry
\* A ComamndLineParser.parse_args call was aborted by an exception.
Aborted == call.kind = "parse" /\ result.kind = "raised"

\* C24: a ComamndLineParser.parse_args call that aborts leaves the registry
\* exactly as it was before the call; what it retained is still there when
\* more is registered, and the next parse_args call builds its parser from
\* all of it.
C24_AbortKeepsRegistry ==
    [][/\ (call'.kind = "parse" /\ result'.kind = "raised") =>
              /\ _classes' = _classes
              /\ _parser_meta' = _parser_meta
       /\ (Aborted /\ call'.kind = "register") =>
              /\ Len(_classes') = Len(call.types) + 1
              /\ SubSeq(_classes', 1, Len(call.types)) = call.types
       /\ call'.kind = "parse" =>
              /\ call'.types = _classes
              /\ call'.meta = _parser_meta
              /\ _dataclasses' = _classes]_vars

\* A pass over a registry holding two types and metadata was aborted, and
\* both are still registered.
C24_Witness ==
    /\ Aborted
    /\ Len(_classes) = 2
    /\ _classes = call.types
    /\ _parser_meta # {}
    /\ _parser_meta = call.meta

====
